---- MODULE Spec2Model ----
(***************************************************************************)
(* Model of apache_beam/runners/portability/fn_api_runner/execution.py:    *)
(* the buffer family (ListBuffer, GroupingBuffer), the scheduling queues   *)
(* (_ProcessingQueueManager.KeyedQueue) and the execution context          *)
(* (FnApiRunnerExecutionContext).                                          *)
(*                                                                         *)
(* Each component has its own specification over the module's variables:   *)
(*   SpecList   one ListBuffer object and the calls made on it             *)
(*   SpecGroup  one GroupingBuffer object and the calls made on it         *)
(*   SpecQueue  one KeyedQueue, the tuples it holds and their buffers      *)
(*   SpecGroupFailing  the same with coders that may raise in partition   *)
(*   SpecSetup  one FnApiRunnerExecutionContext: its construction from a   *)
(*              list of stages, setup and bundle_manager_for               *)
(*   SpecWindowing  execution contexts constructed one after the other     *)
(*              from windowing strategies, the safe strategies they        *)
(*              compute and the process-wide table of merging window fns   *)
(* A specification leaves the variables of the other components at their   *)
(* initial values.                                                         *)
(***************************************************************************)
EXTENDS Naturals, Integers, Sequences, FiniteSets

VARIABLES
  lb_inputs,          \* ListBuffer._inputs: list of encoded records
  lb_grouped_output,  \* ListBuffer._grouped_output: None or list of shards
  lb_cleared,         \* ListBuffer.cleared
  lb_op,              \* the last call on the ListBuffer and what it returned
  gb_table,           \* GroupingBuffer._table, in insertion order
  gb_grouped_output,  \* GroupingBuffer._grouped_output
  gb_op,              \* the last call on the GroupingBuffer and its result
  gb_first,           \* what the first partition of the GroupingBuffer returned
  q,                  \* KeyedQueue._q: deque of references to tuples
  keyed_elements,     \* KeyedQueue._keyed_elements: key -> reference
  elms,               \* heap: reference -> the (key, DataInput) tuple stored
  bufs,               \* heap: reference -> the ListBuffer a DataInput holds
  kq_op,              \* the last call on the KeyedQueue and its result
  log,                \* history: key -> what was enqueued since it was absent
  nenq,               \* history: number of enque calls made
  ec_constructed,     \* whether FnApiRunnerExecutionContext.__init__ has run
  stages,             \* self.stages: the stages, in insertion order
  ready_inputs,       \* self.queues.ready_inputs
  watermark_pending_inputs,  \* self.queues.watermark_pending_inputs
  time_pending_inputs,       \* self.queues.time_pending_inputs
  stage_managers,     \* self._stage_managers: stage name -> the fields of
                      \* its BundleContextManager
  last_uid,           \* self._last_uid
  ec_op,              \* the last call on the execution context
  pipeline,           \* history: the stages as passed to __init__
  nsetup,             \* history: number of setup calls made
  windowing_strategies,  \* pipeline_components.windowing_strategies, as
                         \* iterated: a sequence of [id, proto]
  put_protos,         \* the calls put_proto(id, proto) made on
                      \* pipeline_context.windowing_strategies
  safe_windowing_strategies,  \* self.safe_windowing_strategies: id -> id
  HANDLES,            \* GenericMergingWindowFn._HANDLES, process-wide
  nctx,               \* number of execution contexts constructed so far
  nhandles,           \* number of handle ids generated so far
  ws_op,              \* the last lookup in safe_windowing_strategies
  calls,              \* history: the _make_safe_windowing_strategy calls of
                      \* the last __init__ and what each returned and did
  collected,          \* history: the contexts that were garbage collected
  wf,                 \* handle id -> the fields of that merging window fn
  registered,         \* the descriptor ids registered with the worker
                      \* handler manager, in the order of the calls
  obtained,           \* history: the handle ids of the window fns that
                      \* got a worker handler from get_worker_handlers
  mg_call,            \* the merge call in progress, or the last one
  trace,              \* history: what that merge call did so far
  data_out,           \* the data elements the worker sent, not read yet
  stream_done,        \* the worker ended its output stream
  result,             \* the response future of the pushed instruction
  merges,             \* history: the merge calls that ended
  pcoll_buffers,      \* self.pcoll_buffers: buffer id -> buffer
  timer_buffers,      \* self.timer_buffers: buffer id -> buffer
  nbuffers,           \* history: number of buffers constructed
  state_appends,      \* the calls state_servicer.append_raw(key, data)
  bf_op,              \* the last call of get_buffer or
                      \* commit_side_inputs_to_state
  ncalls,             \* history: number of calls of get_buffer and of
                      \* commit_side_inputs_to_state
  ix_stages,          \* history: the stages the indices below were built of
  input_transform_to_buffer_id,       \* self.input_transform_to_buffer_id
  pcollection_to_producer_transform,  \* the dict of that name
  buffer_id_to_consumer_pairs,        \* the dict of that name
  side_input_descriptors_by_stage,    \* None while _build_data_side_inputs_map
                                      \* has not returned, else its result
  ix_op,              \* which of the two index builders ran last
  alive,              \* FnApiWorkerStatusHandler._alive
  responses,          \* self._responses: the queue, oldest item first
  serve_pc,           \* where the thread running _serve is
  status_streams,     \* the WorkerStatus streams started, each with the
                      \* state of its _get_responses generator
  requests,           \* history: the requests _serve took from a stream
  enqueued,           \* history: every item put on _responses
  sent,               \* history: the responses the generators yielded
  nclose,             \* history: number of close() calls
  now,                \* time.time(), in seconds
  last_lull_logged_secs,  \* self._last_lull_logged_secs
  log_lull_timeout,   \* self.log_lull_timeout_ns, in seconds
  warnings,           \* history: the lull warnings logged, with their time
  lull_op             \* history: the last poll of the lull logger

lbvars == <<lb_inputs, lb_grouped_output, lb_cleared, lb_op>>
gbvars == <<gb_table, gb_grouped_output, gb_op, gb_first>>
kqvars == <<q, keyed_elements, elms, bufs, kq_op, log, nenq>>
suvars == <<ec_constructed, stages, ready_inputs, watermark_pending_inputs,
            time_pending_inputs, stage_managers, last_uid, ec_op, pipeline,
            nsetup>>
wsvars == <<windowing_strategies, put_protos, safe_windowing_strategies,
            HANDLES, nctx, nhandles, ws_op, calls, collected>>
mgvars == <<wf, registered, obtained, mg_call, trace, data_out, stream_done,
            result, merges>>
bfvars == <<pcoll_buffers, timer_buffers, nbuffers, state_appends, bf_op,
            ncalls>>
ixvars == <<ix_stages, input_transform_to_buffer_id,
            pcollection_to_producer_transform, buffer_id_to_consumer_pairs,
            side_input_descriptors_by_stage, ix_op>>
svvars == <<alive, responses, serve_pc, status_streams, requests, enqueued, sent,
            nclose>>
llvars == <<now, last_lull_logged_secs, log_lull_timeout, warnings, lull_op>>
wkvars == <<svvars, llvars>>
rtvars == <<mgvars, bfvars>>
ecvars == <<suvars, wsvars, rtvars, ixvars>>
vars == <<lbvars, gbvars, kqvars, ecvars, wkvars>>

----------------------------------------------------------------------------
(* Bounds of the model.                                                    *)

\* largest number of records held by the ListBuffer
MaxLen == 3
\* largest n passed to partition(n)
MaxN == 3
\* largest number of encoded elements in one appended record
MaxElemsPerRecord == 2
\* largest number of values held by the table of the GroupingBuffer
MaxTable == 2
\* largest number of key/value pairs in one chunk appended to it
MaxKVs == 2
\* largest number of enque calls made on the KeyedQueue
MaxEnq == 3
\* largest number of transforms in one stage
MaxTransforms == 2
\* largest number of setup calls made on one execution context
MaxSetups == 2
\* largest number of merge calls, and of elements a worker sends in one
MaxMerges == 3
MaxOutputs == 2

\* largest number of calls of get_buffer and commit_side_inputs_to_state,
\* and of chunks appended to the buffers
MaxCalls == 2
MaxChunks == 2

\* largest number of execution contexts constructed in the process
MaxContexts == 2

----------------------------------------------------------------------------
(* Python values.                                                          *)

\* Optional[...]: None is the empty sequence, a value x is <<x>>.
None == <<>>

Some(x) == <<x>>

\* bool(x) of an Optional[List]: None and the empty list are false.
Truthy(opt) == opt # None /\ Len(opt[1]) > 0

RECURSIVE Concat(_)
\* b''.join(seqs)
Concat(seqs) ==
  IF Len(seqs) = 0 THEN <<>> ELSE Head(seqs) \o Concat(Tail(seqs))

\* all sequences over S of length 0..n
SeqsUpTo(S, n) == UNION {[1..k -> S] : k \in 0..n}

\* number of positions of s holding x
Count(s, x) == Cardinality({i \in 1..Len(s) : s[i] = x})

\* s[k::n] with a 0-based k, as Python slices it
Slice(s, k, n) ==
  [i \in 1..((Len(s) - k + n - 1) \div n) |-> s[k + 1 + (i - 1) * n]]

----------------------------------------------------------------------------
(* The coder of a ListBuffer: a nested (length-prefixed) encoding of byte  *)
(* strings.  bytes are sequences of small naturals.                        *)

\* the element values the records are built from
Elems == {<<>>, <<1>>}

\* CoderImpl.encode_to_stream(value, stream, nested=True): what is written
EncodeNested(e) == <<Len(e)>> \o e

RECURSIVE EncodeAll(_)
\* the stream after encoding every element of es to it in order
EncodeAll(es) ==
  IF Len(es) = 0 THEN <<>> ELSE EncodeNested(Head(es)) \o EncodeAll(Tail(es))

RECURSIVE DecodeAll(_)
\* while input_stream.size() > 0: decode_from_stream(input_stream, True)
DecodeAll(bytes) ==
  IF Len(bytes) = 0 THEN <<>>
  ELSE LET l == bytes[1]
       IN  <<SubSeq(bytes, 2, 1 + l)>> \o
           DecodeAll(SubSeq(bytes, 2 + l, Len(bytes)))

\* the encoded records a caller can append
Records == {EncodeAll(es) : es \in SeqsUpTo(Elems, MaxElemsPerRecord)}

----------------------------------------------------------------------------
(* ListBuffer                                                              *)

\* a ListBuffer object as a value
ListBuffer(inputs) ==
  [inputs |-> inputs, grouped_output |-> None, cleared |-> FALSE]

\* the result of a call: ok is FALSE when it raised
Result(name, ok, n, ret) == [name |-> name, ok |-> ok, n |-> n, ret |-> ret]

\* faulty variant: the guard without the test of self.cleared
RaisesOnWrite_IgnoresCleared(cleared, grouped) == Truthy(grouped)

\* the guard shared by append and extend: the error raised, if any
RaisesOnWrite(cleared, grouped) == cleared \/ Truthy(grouped)

\* the first branch of partition: [self._inputs[k::n] for k in range(n)]
RoundRobin(inputs, n) == [k \in 1..n |-> Slice(inputs, k - 1, n)]

RECURSIVE Distribute_Overwrite(_, _, _, _)
\* faulty variant: each element replaces what its stream held
Distribute_Overwrite(elems, streams, idx, n) ==
  IF Len(elems) = 0 THEN streams
  ELSE Distribute_Overwrite(
         Tail(elems),
         [streams EXCEPT ![idx + 1] = EncodeNested(Head(elems))],
         (idx + 1) % n, n)

RECURSIVE Distribute(_, _, _, _)
\* the loop of the second branch: element by element, idx = (idx + 1) % n;
\* streams[idx + 1] is output_stream_list[idx]
Distribute(elems, streams, idx, n) ==
  IF Len(elems) = 0 THEN streams
  ELSE Distribute(
         Tail(elems),
         [streams EXCEPT ![idx + 1] = @ \o EncodeNested(Head(elems))],
         (idx + 1) % n, n)

\* the second branch of partition: decode every input, re-encode round robin,
\* one record per shard
Redistribute(inputs, n) ==
  LET elems == Concat([i \in 1..Len(inputs) |-> DecodeAll(inputs[i])])
      streams == Distribute(elems, [k \in 1..n |-> <<>>], 0, n)
  IN  [k \in 1..n |-> <<streams[k]>>]

\* which branch partition(n) takes
TakesRoundRobin(inputs, n) == Len(inputs) >= n \/ Len(inputs) = 0

\* faulty variant: the second branch computes on every call, whatever is memoized
PartitionList_Recompute(inputs, grouped, n) ==
  IF TakesRoundRobin(inputs, n)
  THEN [ret |-> RoundRobin(inputs, n), grouped |-> grouped]
  ELSE [ret |-> Redistribute(inputs, n),
        grouped |-> Some(Redistribute(inputs, n))]

\* ListBuffer.partition on a non-cleared buffer: the value returned and the
\* new _grouped_output
PartitionList(inputs, grouped, n) ==
  IF TakesRoundRobin(inputs, n)
  THEN [ret |-> RoundRobin(inputs, n), grouped |-> grouped]
  ELSE IF ~Truthy(grouped)
       THEN [ret |-> Redistribute(inputs, n),
             grouped |-> Some(Redistribute(inputs, n))]
       ELSE [ret |-> grouped[1], grouped |-> grouped]

LB_Append(element) ==
  /\ IF RaisesOnWrite(lb_cleared, lb_grouped_output)
     THEN /\ lb_op' = Result("append", FALSE, 0, <<>>)
          /\ UNCHANGED lb_inputs
     ELSE /\ Len(lb_inputs) < MaxLen
          /\ lb_inputs' = Append(lb_inputs, element)
          /\ lb_op' = Result("append", TRUE, 0, <<>>)
  /\ UNCHANGED <<lb_grouped_output, lb_cleared>>
  /\ UNCHANGED <<gbvars, kqvars, ecvars, wkvars>>

LB_Extend(extra) ==
  /\ IF RaisesOnWrite(lb_cleared, lb_grouped_output)
     THEN /\ lb_op' = Result("extend", FALSE, 0, <<>>)
          /\ UNCHANGED lb_inputs
     ELSE /\ Len(lb_inputs) + Len(extra.inputs) <= MaxLen
          /\ lb_inputs' = lb_inputs \o extra.inputs
          /\ lb_op' = Result("extend", TRUE, 0, <<>>)
  /\ UNCHANGED <<lb_grouped_output, lb_cleared>>
  /\ UNCHANGED <<gbvars, kqvars, ecvars, wkvars>>

LB_Partition(n) ==
  /\ IF lb_cleared
     THEN /\ lb_op' = Result("partition", FALSE, n, <<>>)
          /\ UNCHANGED lb_grouped_output
     ELSE LET r == PartitionList(lb_inputs, lb_grouped_output, n)
          IN  /\ lb_op' = Result("partition", TRUE, n, r.ret)
              /\ lb_grouped_output' = r.grouped
  /\ UNCHANGED <<lb_inputs, lb_cleared>>
  /\ UNCHANGED <<gbvars, kqvars, ecvars, wkvars>>

\* ListBuffer.partition when decode_from_stream or encode_to_stream raises
\* inside the redistributing loop: only locals were written so far, and
\* _grouped_output is assigned after the loop
PartitionListFailing(inputs, grouped, n) ==
  [inputs |-> inputs, grouped |-> grouped]

\* a partition call whose coder raises; the loop body runs only when the
\* buffer redistributes and some record holds an encoded element
LB_PartitionFails(n) ==
  /\ ~lb_cleared
  /\ ~TakesRoundRobin(lb_inputs, n)
  /\ ~Truthy(lb_grouped_output)
  /\ \E i \in 1..Len(lb_inputs) : DecodeAll(lb_inputs[i]) # <<>>
  /\ LET r == PartitionListFailing(lb_inputs, lb_grouped_output, n)
     IN  /\ lb_inputs' = r.inputs
         /\ lb_grouped_output' = r.grouped
  /\ lb_op' = Result("partition", FALSE, n, <<>>)
  /\ UNCHANGED lb_cleared
  /\ UNCHANGED <<gbvars, kqvars, ecvars, wkvars>>

LB_Iter ==
  /\ lb_op' = IF lb_cleared THEN Result("iter", FALSE, 0, <<>>)
              ELSE Result("iter", TRUE, 0, lb_inputs)
  /\ UNCHANGED <<lb_inputs, lb_grouped_output, lb_cleared>>
  /\ UNCHANGED <<gbvars, kqvars, ecvars, wkvars>>

\* faulty variant: clear keeps the memoized sharding
LB_Clear_KeepsMemo ==
  /\ lb_cleared' = TRUE
  /\ lb_inputs' = <<>>
  /\ lb_op' = Result("clear", TRUE, 0, <<>>)
  /\ UNCHANGED lb_grouped_output
  /\ UNCHANGED <<gbvars, kqvars, ecvars, wkvars>>

LB_Clear ==
  /\ lb_cleared' = TRUE
  /\ lb_inputs' = <<>>
  /\ lb_grouped_output' = None
  /\ lb_op' = Result("clear", TRUE, 0, <<>>)
  /\ UNCHANGED <<gbvars, kqvars, ecvars, wkvars>>

\* faulty variant: reset without its guard
LB_Reset_Unguarded ==
  /\ lb_cleared' = FALSE
  /\ lb_op' = Result("reset", TRUE, 0, <<>>)
  /\ UNCHANGED <<lb_inputs, lb_grouped_output>>
  /\ UNCHANGED <<gbvars, kqvars, ecvars, wkvars>>

LB_Reset ==
  /\ IF ~lb_cleared
     THEN /\ lb_op' = Result("reset", FALSE, 0, <<>>)
          /\ UNCHANGED lb_cleared
     ELSE /\ lb_cleared' = FALSE
          /\ lb_op' = Result("reset", TRUE, 0, <<>>)
  /\ UNCHANGED <<lb_inputs, lb_grouped_output>>
  /\ UNCHANGED <<gbvars, kqvars, ecvars, wkvars>>

\* the other ListBuffers handed to extend
ExtraBuffers == {ListBuffer(s) : s \in SeqsUpTo(Records, 1)}

----------------------------------------------------------------------------
(* GroupingBuffer                                                          *)
(* The table is a defaultdict(list): its items are kept in insertion       *)
(* order, as a sequence of [key, vals].  An encoded chunk is written as    *)
(* the sequence of the values the coder decodes from it.                   *)

GKeys == {"k1", "k2"}

GVals == {1, 2}

\* what pre_grouped_coder decodes from one appended chunk: (key, value) pairs
Chunks == SeqsUpTo(GKeys \X GVals, MaxKVs)

\* the position of key in the table, 0 when absent
IndexOf(table, key) ==
  IF \E i \in 1..Len(table) : table[i].key = key
  THEN CHOOSE i \in 1..Len(table) : table[i].key = key
  ELSE 0

\* self._table[key].extend(values) on a defaultdict(list)
TableExtend(table, key, values) ==
  IF IndexOf(table, key) = 0
  THEN Append(table, [key |-> key, vals |-> values])
  ELSE [table EXCEPT ![IndexOf(table, key)].vals = @ \o values]

RECURSIVE TableAppendAll(_, _)
\* the loop of append: self._table[encode(key)].append(value) per pair
TableAppendAll(table, kvs) ==
  IF Len(kvs) = 0 THEN table
  ELSE TableAppendAll(
         TableExtend(table, Head(kvs)[1], <<Head(kvs)[2]>>), Tail(kvs))

RECURSIVE TableExtendAll(_, _)
\* the loop of extend: for key, values in input_buffer._table.items()
TableExtendAll(table, items) ==
  IF Len(items) = 0 THEN table
  ELSE TableExtendAll(
         TableExtend(table, Head(items).key, Head(items).vals), Tail(items))

\* number of values held by a table
TableSize(table) ==
  Len(Concat([i \in 1..Len(table) |-> table[i].vals]))

\* a GroupingBuffer / a ListBuffer handed to extend, as a value
OtherGrouping(table) ==
  [kind |-> "GroupingBuffer", table |-> table, inputs |-> <<>>]

OtherList(inputs) ==
  [kind |-> "ListBuffer", table |-> <<>>, inputs |-> inputs]

\* faulty variant: append without its guard
AppendRaises_Never(grouped) == FALSE

\* the guard of append: 'Grouping table append after read.'
AppendRaises(grouped) == Truthy(grouped)

\* the guard of extend: GroupingBuffer.extend raises nothing
ExtendRaises(grouped) == FALSE

\* windowed_key_values for default windowing: one (key, values) per key
WindowedKeyValues(key, values) == <<[key |-> key, vals |-> values]>>

RECURSIVE GroupInto_Overwrite(_, _, _, _)
\* faulty variant: a stream holds only the last group written to it
GroupInto_Overwrite(items, streams, idx, n) ==
  IF Len(items) = 0 THEN streams
  ELSE GroupInto_Overwrite(
         Tail(items),
         [streams EXCEPT ![(idx % n) + 1] =
            WindowedKeyValues(Head(items).key, Head(items).vals)],
         idx + 1, n)

RECURSIVE GroupInto(_, _, _, _)
\* the enumerate loop of partition: item idx goes to stream idx % n
GroupInto(items, streams, idx, n) ==
  IF Len(items) = 0 THEN streams
  ELSE GroupInto(
         Tail(items),
         [streams EXCEPT ![(idx % n) + 1] =
            @ \o WindowedKeyValues(Head(items).key, Head(items).vals)],
         idx + 1, n)

\* faulty variant: partition computes on every call
Computes_Always(grouped) == TRUE

\* which calls of partition compute: if not self._grouped_output
Computes(grouped) == ~Truthy(grouped)

\* GroupingBuffer.partition: the value returned, the new _grouped_output and
\* the new _table
PartitionGrouping(table, grouped, n) ==
  IF Computes(grouped)
  THEN LET streams == GroupInto(table, [k \in 1..n |-> <<>>], 0, n)
           out == [k \in 1..n |-> <<streams[k]>>]
       IN  [ret |-> out, grouped |-> Some(out), table |-> <<>>]
  ELSE [ret |-> grouped[1], grouped |-> grouped, table |-> table]

\* GroupingBuffer.partition when the key coder or the post-grouped coder
\* raises inside the enumerate loop: _grouped_output was already assigned n
\* empty lists before the loop, and _table.clear() was not reached
PartitionGroupingFailing(table, grouped, n) ==
  [grouped |-> Some([k \in 1..n |-> <<>>]), table |-> table]

\* faulty variant: extend from a ListBuffer empties the table
ExtendFromList_Drops(table, inputs) ==
  [table |-> <<>>, inputs |-> inputs]

\* GroupingBuffer.extend from a ListBuffer returns at once: the table and
\* the records of the source after the call
ExtendFromList(table, inputs) ==
  [table |-> table, inputs |-> inputs]

\* the class attribute GroupingBuffer.cleared, which no method assigns
gb_cleared == FALSE

GB_Append(elements_data) ==
  /\ IF AppendRaises(gb_grouped_output)
     THEN /\ gb_op' = Result("append", FALSE, 0, <<>>)
          /\ UNCHANGED gb_table
     ELSE /\ TableSize(gb_table) + Len(elements_data) <= MaxTable
          /\ gb_table' = TableAppendAll(gb_table, elements_data)
          /\ gb_op' = Result("append", TRUE, 0, <<>>)
  /\ UNCHANGED <<gb_grouped_output, gb_first>>
  /\ UNCHANGED <<lbvars, kqvars, ecvars, wkvars>>

GB_Extend(input_buffer) ==
  /\ IF input_buffer.kind = "ListBuffer"
     THEN LET r == ExtendFromList(gb_table, input_buffer.inputs)
          IN  /\ gb_table' = r.table
              /\ gb_op' = Result("extend_list", TRUE, 0,
                                 <<input_buffer.inputs, r.inputs>>)
     ELSE IF ExtendRaises(gb_grouped_output)
          THEN /\ gb_op' = Result("extend", FALSE, 0, <<>>)
               /\ UNCHANGED gb_table
          ELSE /\ TableSize(gb_table) + TableSize(input_buffer.table)
                    <= MaxTable
               /\ gb_table' = TableExtendAll(gb_table, input_buffer.table)
               /\ gb_op' = Result("extend", TRUE, 0, <<>>)
  /\ UNCHANGED <<gb_grouped_output, gb_first>>
  /\ UNCHANGED <<lbvars, kqvars, ecvars, wkvars>>

GB_Partition(n) ==
  LET r == PartitionGrouping(gb_table, gb_grouped_output, n)
  IN  /\ gb_op' = Result("partition", TRUE, n, r.ret)
      /\ gb_grouped_output' = r.grouped
      /\ gb_table' = r.table
      /\ gb_first' = IF gb_first = None THEN Some(r.ret) ELSE gb_first
      /\ UNCHANGED <<lbvars, kqvars, ecvars, wkvars>>

\* a partition call whose coder raises; the loop body runs only when the
\* call computes and the table holds a key
GB_PartitionFails(n) ==
  /\ Computes(gb_grouped_output)
  /\ gb_table # <<>>
  /\ LET r == PartitionGroupingFailing(gb_table, gb_grouped_output, n)
     IN  /\ gb_grouped_output' = r.grouped
         /\ gb_table' = r.table
  /\ gb_op' = Result("partition", FALSE, n, <<>>)
  /\ UNCHANGED gb_first
  /\ UNCHANGED <<lbvars, kqvars, ecvars, wkvars>>

\* __iter__: itertools.chain(*self.partition(1))
GB_Iter ==
  LET r == PartitionGrouping(gb_table, gb_grouped_output, 1)
  IN  /\ gb_op' = Result("iter", TRUE, 1, Concat(r.ret))
      /\ gb_grouped_output' = r.grouped
      /\ gb_table' = r.table
      /\ gb_first' = IF gb_first = None THEN Some(r.ret) ELSE gb_first
      /\ UNCHANGED <<lbvars, kqvars, ecvars, wkvars>>

\* clear and reset are 'pass'
GB_Clear ==
  /\ gb_op' = Result("clear", TRUE, 0, <<>>)
  /\ UNCHANGED <<gb_table, gb_grouped_output, gb_first>>
  /\ UNCHANGED <<lbvars, kqvars, ecvars, wkvars>>

GB_Reset ==
  /\ gb_op' = Result("reset", TRUE, 0, <<>>)
  /\ UNCHANGED <<gb_table, gb_grouped_output, gb_first>>
  /\ UNCHANGED <<lbvars, kqvars, ecvars, wkvars>>

\* the records of the ListBuffers handed to extend: none, or one record
\* holding one element
ListSources == {<<>>, <<EncodeAll(<<<<1>>>>)>>}

\* the buffers handed to extend: GroupingBuffers that were appended to (or
\* not, or were partitioned, which empties the table), and ListBuffers
OtherBuffers ==
  {OtherGrouping(TableAppendAll(<<>>, c)) : c \in SeqsUpTo(GKeys \X GVals, 1)}
    \cup {OtherList(s) : s \in ListSources}

----------------------------------------------------------------------------
(* _ProcessingQueueManager.KeyedQueue                                      *)
(* The queue holds references to (key, DataInput) tuples; a DataInput      *)
(* holds two dicts of references to buffers.  The tuple passed to the      *)
(* n-th enque call has reference n, and the buffer it holds for PCollection *)
(* p has reference <<n, "data", p>>: references are never reused, so a     *)
(* tuple's reference also tells which call first inserted it.              *)

\* the members of a sequence
Range(seq) == {seq[i] : i \in 1..Len(seq)}

QKeys == {"A", "B"}

PColls == {"p1", "p2"}

TimerFamilies == {"t1"}

\* how many records a buffer handed to enque may hold
BufLens == {0, 1}

\* the empty dict
EmptyMap == [x \in {} |-> <<>>]

\* a dict restricted to the keys in S
Restrict(f, S) == [x \in S |-> f[x]]

\* DataInput(data, timers) as the caller sees it: the records per name
DataInputOf(D, T, k) ==
  [data |-> [p \in D |-> [i \in 1..k |-> <<"data", p, i>>]],
   timers |-> [t \in T |-> [i \in 1..k |-> <<"timers", t, i>>]]]

\* the inputs enqueued: no data at all, one PCollection, both, timers alone,
\* both with timers, and one PCollection whose buffer holds no record
DataInputs ==
  {DataInputOf(D, {}, 1) : D \in SUBSET PColls}
    \cup {DataInputOf(D, TimerFamilies, 1) : D \in {{}, PColls}}
    \cup {DataInputOf({p}, {}, k) : p \in {"p1"}, k \in BufLens}

\* a DataInput without data: both dicts empty
HasNoData(input) == DOMAIN input.data = {} /\ DOMAIN input.timers = {}

\* bool(incoming_inputs)
DataInputTruthy(input) == ~HasNoData(input)

\* the records of call n, tagged with n to tell them apart
Tagged(records, n) == [i \in 1..Len(records) |-> <<n>> \o records[i]]

\* the buffer objects the DataInput of call n refers to
BuffersOf(input, n) ==
  [r \in {<<n, "data", p>> : p \in DOMAIN input.data}
           \cup {<<n, "timers", t>> : t \in DOMAIN input.timers} |->
     ListBuffer(Tagged(IF r[2] = "data" THEN input.data[r[3]]
                       ELSE input.timers[r[3]], n))]

\* the tuple object of call n
ElmOf(key, input, n) ==
  [key |-> key,
   data |-> [p \in DOMAIN input.data |-> <<n, "data", p>>],
   timers |-> [t \in DOMAIN input.timers |-> <<n, "timers", t>>]]

\* bool(buffer): ListBuffer defines neither __bool__ nor __len__
BufferTruthy(buffer) == TRUE

\* faulty variant: enque without its early return
ReturnsEarly_Never(input) == FALSE

\* if not incoming_inputs: return
ReturnsEarly(input) == ~DataInputTruthy(input)

\* ListBuffer.extend(extra) on a buffer that is neither cleared nor read
ExtendBuffer(buffer, extra) ==
  [buffer EXCEPT !.inputs = @ \o extra.inputs]

\* one of the two merge loops of enque, over the dict `incoming` of the new
\* DataInput and the dict `existing` of the pending one: the names present
\* on both sides are extended in place, the others adopted
MergedDict(existing, incoming) ==
  [x \in DOMAIN existing \cup DOMAIN incoming |->
     IF x \in DOMAIN existing THEN existing[x] ELSE incoming[x]]

\* faulty variant: a name present on both sides keeps its buffer, never extended
MergedBuffers_NoExtend(heap, existing, incoming) == heap

\* the buffers after the loop: existing[x].extend(incoming[x])
MergedBuffers(heap, existing, incoming) ==
  [r \in DOMAIN heap |->
     IF \E x \in DOMAIN existing \cap DOMAIN incoming :
          /\ existing[x] = r
          /\ BufferTruthy(heap[incoming[x]]) /\ BufferTruthy(heap[r])
     THEN LET x == CHOOSE x \in DOMAIN existing \cap DOMAIN incoming :
                     existing[x] = r
          IN  ExtendBuffer(heap[r], heap[incoming[x]])
     ELSE heap[r]]

\* faulty variant: append instead of appendleft
AppendLeft_Right(queue, ref) == Append(queue, ref)

\* self._q.appendleft(elm)
AppendLeft(queue, ref) == <<ref>> \o queue

\* faulty variant: deque without the del
DelKey_Forgotten(index, key) == index

\* del self._keyed_elements[key]
DelKey(index, key) == Restrict(index, DOMAIN index \ {key})

\* function f with x mapped to v
With(f, x, v) == [y \in DOMAIN f \cup {x} |-> IF y = x THEN v ELSE f[y]]

\* the two heaps joined (their domains are disjoint)
Joined(f, g) == [x \in DOMAIN f \cup DOMAIN g |->
                   IF x \in DOMAIN f THEN f[x] ELSE g[x]]

\* history: the records per name of a DataInput, after more were enqueued
Logged(old, input, n) ==
  LET cat(f, g) == [x \in DOMAIN f \cup DOMAIN g |->
                      (IF x \in DOMAIN f THEN f[x] ELSE <<>>) \o
                      (IF x \in DOMAIN g THEN Tagged(g[x], n) ELSE <<>>)]
  IN  [data |-> cat(old.data, input.data),
       timers |-> cat(old.timers, input.timers)]

NothingLogged == [data |-> EmptyMap, timers |-> EmptyMap]

KqResult(name, ok, key, ret, empty, held) ==
  [name |-> name, ok |-> ok, key |-> key, ret |-> ret, empty |-> empty,
   held |-> held]

KQ_Enque(key, input) ==
  LET n == nenq + 1
      heap == Joined(bufs, BuffersOf(input, n))
      elm == ElmOf(key, input, n)
  IN  /\ nenq < MaxEnq
      /\ nenq' = n
      /\ kq_op' = KqResult("enque", TRUE, key, 0, HasNoData(input),
                           NothingLogged)
      /\ log' = [log EXCEPT ![key] = Logged(@, input, n)]
      /\ IF ReturnsEarly(input)
         THEN UNCHANGED <<q, keyed_elements, elms, bufs>>
         ELSE IF key \in DOMAIN keyed_elements
              THEN LET ref == keyed_elements[key]
                       existing == elms[ref]
                   IN  /\ bufs' = MergedBuffers(
                                    MergedBuffers(heap, existing.data,
                                                  elm.data),
                                    existing.timers, elm.timers)
                       /\ elms' = [elms EXCEPT
                            ![ref].data = MergedDict(@, elm.data),
                            ![ref].timers = MergedDict(@, elm.timers)]
                       /\ UNCHANGED <<q, keyed_elements>>
              ELSE /\ keyed_elements' = With(keyed_elements, key, n)
                   /\ elms' = With(elms, n, elm)
                   /\ q' = AppendLeft(q, n)
                   /\ bufs' = heap
      /\ UNCHANGED <<lbvars, gbvars, ecvars, wkvars>>

KQ_Deque ==
  /\ IF Len(q) = 0
     THEN /\ kq_op' = KqResult("deque", FALSE, "", 0, FALSE, NothingLogged)
          /\ UNCHANGED <<q, keyed_elements, log>>
     ELSE LET ref == q[Len(q)]
              key == elms[ref].key
          IN  /\ q' = SubSeq(q, 1, Len(q) - 1)
              /\ keyed_elements' = DelKey(keyed_elements, key)
              /\ kq_op' = KqResult("deque", TRUE, key, ref, FALSE, log[key])
              /\ log' = [log EXCEPT ![key] = NothingLogged]
  /\ UNCHANGED <<elms, bufs, nenq>>
  /\ UNCHANGED <<lbvars, gbvars, ecvars, wkvars>>

\* len(queue)
QueueLen == Len(q)

----------------------------------------------------------------------------
(* FnApiRunnerExecutionContext: stages and setup                           *)
(* A transform is written [urn, payload, side_inputs]: the URN of its      *)
(* spec, the payload of a DATA_INPUT or DATA_OUTPUT spec, and whether the  *)
(* ParDoPayload of a ParDo names a side input.  The unique name of a       *)
(* transform is its position in the stage.  A queue of the context is      *)
(* written as the sequence of the (key, DataInput) tuples it holds, the    *)
(* next one dequeued last, each buffer as the sequence of its records.     *)

DATA_INPUT_URN == "beam:runner:source:v1"

DATA_OUTPUT_URN == "beam:runner:sink:v1"

PAR_DO_URN == "beam:transform:pardo:v1"

FLATTEN_URN == "beam:transform:flatten:v1"

\* translations.IMPULSE_BUFFER, and the id of a buffer that is no impulse
IMPULSE_BUFFER == "impulse"

OTHER_BUFFER == "materialize:pc"

\* what data_spec.SerializeToString() yields
REMOTE_GRPC_PORT == "RemoteGrpcPort"

MAX_TIMESTAMP == "MAX_TIMESTAMP"

\* the encoded impulse value: one encoded element, the empty byte string
ENCODED_IMPULSE_VALUE == EncodeAll(<<<<>>>>)

Transform(urn, payload, side_inputs) ==
  [urn |-> urn, payload |-> payload, side_inputs |-> side_inputs]

\* the transforms a stage is built of
TransformKinds ==
  {Transform(DATA_INPUT_URN, IMPULSE_BUFFER, FALSE),
   Transform(DATA_INPUT_URN, OTHER_BUFFER, FALSE),
   Transform(DATA_OUTPUT_URN, OTHER_BUFFER, FALSE),
   Transform(PAR_DO_URN, "", FALSE),
   Transform(PAR_DO_URN, "", TRUE),
   Transform(FLATTEN_URN, "", FALSE)}

Stage(name, transforms) == [name |-> name, transforms |-> transforms]

\* the lists of stages passed to __init__: two stages of distinct names
Pipelines ==
  {<<Stage("A", ta), Stage("B", tb)>> :
     ta \in SeqsUpTo(TransformKinds, MaxTransforms),
     tb \in SeqsUpTo(TransformKinds, MaxTransforms)}

\* the DATA_INPUT transforms of a stage whose payload is the impulse buffer
ImpulseInputs(transforms) ==
  {i \in 1..Len(transforms) :
     /\ transforms[i].urn = DATA_INPUT_URN
     /\ transforms[i].payload = IMPULSE_BUFFER}

\* data_input after the loop: a ListBuffer holding ENCODED_IMPULSE_VALUE
\* per impulse input
InitialDataInput(transforms) ==
  [data |-> [i \in ImpulseInputs(transforms) |-> <<ENCODED_IMPULSE_VALUE>>],
   timers |-> EmptyMap]

\* faulty variant: no stage is ready to schedule
ReadyToSchedule_Never(transforms) == FALSE

\* faulty variant: side inputs do not hold a stage back
ReadyToSchedule_Always(transforms) == TRUE

\* ready_to_schedule after the loop: no ParDo with payload.side_inputs
ReadyToSchedule(transforms) ==
  ~\E i \in 1..Len(transforms) :
      /\ transforms[i].urn = PAR_DO_URN
      /\ transforms[i].side_inputs

\* faulty variant: the payloads are left as they were
WithDataEndpoints_Kept(transforms) == transforms

\* the transforms after the loop: the payload of every DATA_INPUT and
\* DATA_OUTPUT replaced by the serialized RemoteGrpcPort
WithDataEndpoints(transforms) ==
  [i \in 1..Len(transforms) |->
     IF transforms[i].urn \in {DATA_INPUT_URN, DATA_OUTPUT_URN}
     THEN [transforms[i] EXCEPT !.payload = REMOTE_GRPC_PORT]
     ELSE transforms[i]]

\* whether the loop calls self.bundle_manager_for(stage)
AsksBundleManager(transforms) ==
  \E i \in 1..Len(transforms) :
     transforms[i].urn \in {DATA_INPUT_URN, DATA_OUTPUT_URN}

\* the num_workers the execution context was constructed with
ContextNumWorkers == 1

\* the num_workers bundle_manager_for is called with
NumWorkers == {None, Some(0), Some(2)}

\* num_workers or self.num_workers
NumWorkersOr(num_workers, default) ==
  IF num_workers # None /\ num_workers[1] # 0 THEN num_workers[1]
  ELSE default

\* the fields BundleContextManager.__init__ sets; the bundle uid
\* str(self._last_uid) is written as the number
BundleContextManager(bundle_uid, num_workers) ==
  [bundle_uid |-> bundle_uid, num_workers |-> num_workers,
   process_bundle_descriptor |-> None, built |-> 0]

\* faulty variant: a manager is made on every call
HasManager_Never(managers, name) == FALSE

\* stage.name in self._stage_managers
HasManager(managers, name) == name \in DOMAIN managers

\* bundle_manager_for(stage, num_workers) on the fields c of the context:
\* the stage has a manager from the first call on
WithManager(c, name, num_workers) ==
  IF HasManager(c.stage_managers, name) THEN c
  ELSE [c EXCEPT
          !.last_uid = @ + 1,
          !.stage_managers =
             [x \in DOMAIN @ \cup {name} |->
                IF x = name
                THEN BundleContextManager(
                       c.last_uid + 1,
                       NumWorkersOr(num_workers, ContextNumWorkers))
                ELSE @[x]]]

\* the merge loops of KeyedQueue.enque on the records themselves
MergedRecords(existing, incoming) ==
  [x \in DOMAIN existing \cup DOMAIN incoming |->
     IF x \in DOMAIN existing /\ x \in DOMAIN incoming
     THEN existing[x] \o incoming[x]
     ELSE IF x \in DOMAIN existing THEN existing[x] ELSE incoming[x]]

\* KeyedQueue.enque((key, input)) on a queue written as a sequence
Enqueued(queue, key, input) ==
  IF ReturnsEarly(input) THEN queue
  ELSE IF \E i \in 1..Len(queue) : queue[i].key = key
       THEN [i \in 1..Len(queue) |->
               IF queue[i].key = key
               THEN [queue[i] EXCEPT
                       !.data = MergedRecords(@, input.data),
                       !.timers = MergedRecords(@, input.timers)]
               ELSE queue[i]]
       ELSE AppendLeft(queue, [key |-> key, data |-> input.data,
                               timers |-> input.timers])

\* _enqueue_stage_initial_inputs(stage) for the k-th stage, on the fields
\* c of the context
EnqueueStageInitialInputs(c, k) ==
  LET stage == c.stages[k]
      data_input == InitialDataInput(stage.transforms)
      ready_to_schedule == ReadyToSchedule(stage.transforms)
      has_data == DOMAIN data_input.data # {}
      m == IF AsksBundleManager(stage.transforms)
           THEN WithManager(c, stage.name, None) ELSE c
  IN  [stages |->
         [c.stages EXCEPT ![k].transforms = WithDataEndpoints(@)],
       stage_managers |-> m.stage_managers,
       last_uid |-> m.last_uid,
       ready_inputs |->
         IF has_data /\ ready_to_schedule
         THEN Enqueued(c.ready_inputs, stage.name, data_input)
         ELSE c.ready_inputs,
       watermark_pending_inputs |->
         IF has_data /\ ~ready_to_schedule
         THEN Enqueued(c.watermark_pending_inputs,
                       <<stage.name, MAX_TIMESTAMP>>, data_input)
         ELSE c.watermark_pending_inputs]

RECURSIVE SetupFrom(_, _)
\* the loop of setup: for stage in self.stages.values()
SetupFrom(c, k) ==
  IF k > Len(c.stages) THEN c
  ELSE SetupFrom(EnqueueStageInitialInputs(c, k), k + 1)

----------------------------------------------------------------------------
(* FnApiRunnerExecutionContext: safe windowing strategies                  *)
(* A windowing strategy proto is written [urn, payload, merge_status,      *)
(* window_coder_id], urn and payload being those of its window_fn.  The    *)
(* handle table maps a handle id to the context that owns the window fn    *)
(* and the proto it was made from.                                         *)

GLOBAL_WINDOWS_URN == "beam:window_fn:global_windows:v1"

SESSION_WINDOWS_URN == "beam:window_fn:session_windows:v1"

PICKLED_WINDOWFN == "beam:window_fn:pickled_python:v1"

\* window.WindowFn._known_urns.keys()
KnownUrns == {GLOBAL_WINDOWS_URN, SESSION_WINDOWS_URN, PICKLED_WINDOWFN}

SAFE_WINDOW_FNS == KnownUrns \ {PICKLED_WINDOWFN}

\* GenericNonMergingWindowFn.URN and GenericMergingWindowFn.URN
NON_MERGING_URN == "internal-generic-non-merging"

MERGING_URN == "internal-generic-merging"

NON_MERGING == "NON_MERGING"

NEEDS_MERGE == "NEEDS_MERGE"

ALREADY_MERGED == "ALREADY_MERGED"

WindowingStrategy(urn, merge_status) ==
  [urn |-> urn, payload |-> "", merge_status |-> merge_status,
   window_coder_id |-> "wc"]

\* the strategies a pipeline holds: two of safe window fns, and pickled
\* window fns of each merge status
StrategyProtos ==
  {WindowingStrategy(GLOBAL_WINDOWS_URN, NON_MERGING),
   WindowingStrategy(SESSION_WINDOWS_URN, NEEDS_MERGE),
   WindowingStrategy(PICKLED_WINDOWFN, NON_MERGING),
   WindowingStrategy(PICKLED_WINDOWFN, NEEDS_MERGE),
   WindowingStrategy(PICKLED_WINDOWFN, ALREADY_MERGED)}

\* the ids they are held under: an id, and the ids the loop of
\* _make_safe_windowing_strategy tries first for it
StrategyIds == {"w", "w_safe", "w_safe_"}

\* pipeline_components.windowing_strategies, in the order .keys() yields
WindowingStrategies ==
  {ws \in UNION {[1..k -> [id : StrategyIds, proto : StrategyProtos]] :
                   k \in 0..Cardinality(StrategyIds)} :
     \A i, j \in 1..Len(ws) : i # j => ws[i].id # ws[j].id}

\* the keys of windowing_strategies
IdsOf(strategies) == {strategies[i].id : i \in 1..Len(strategies)}

\* windowing_strategies[id]
ProtoOf(strategies, id) ==
  strategies[CHOOSE i \in 1..Len(strategies) : strategies[i].id = id].proto

RECURSIVE Uuid(_)
\* uuid.uuid4().hex: the n-th id generated differs from all before it
Uuid(n) == IF n = 0 THEN "uuid" ELSE Uuid(n - 1) \o "+"

\* faulty variant: every window fn is taken for unsafe
IsSafe_Never(urn) == FALSE

\* windowing_strategy_proto.window_fn.urn in SAFE_WINDOW_FNS
IsSafe(urn) == urn \in SAFE_WINDOW_FNS

\* faulty variant: the safe id is taken without looking for it
SafeId_Unchecked(safe_id, taken) == safe_id

RECURSIVE SafeId(_, _)
\* while safe_id in self.pipeline_components.windowing_strategies:
\*   safe_id += '_'
SafeId(safe_id, taken) ==
  IF safe_id \in taken THEN SafeId(safe_id \o "_", taken) ELSE safe_id

\* faulty variant: every status that is not NON_MERGING is taken to need
\* merging
NeedsMerge_Otherwise(merge_status) == TRUE

\* elif windowing_strategy_proto.merge_status == MergeStatus.NEEDS_MERGE
NeedsMerge(merge_status) == merge_status = NEEDS_MERGE

\* what one call of _make_safe_windowing_strategy returned and did
Call(id, proto, ok, ret, put, handles) ==
  [id |-> id, proto |-> proto, ok |-> ok, ret |-> ret, put |-> put,
   handles |-> handles]

\* GenericMergingWindowFn(execution_context, proto): the handle table after
\* __init__ registered the new window fn under handle_id
Registered(handles, handle_id, ctx, proto) ==
  [h \in DOMAIN handles \cup {handle_id} |->
     IF h = handle_id
     THEN [handle_id |-> handle_id, ctx |-> ctx, proto |-> proto]
     ELSE handles[h]]

\* _make_safe_windowing_strategy(id) of context ctx, on the fields c
MakeSafeWindowingStrategy(c, strategies, ctx, id) ==
  LET windowing_strategy_proto == ProtoOf(strategies, id)
      safe_id == SafeId(id \o "_safe", IdsOf(strategies))
      handle_id == Uuid(c.nhandles + 1)
  IN  IF IsSafe(windowing_strategy_proto.urn)
      THEN [c EXCEPT
              !.calls = Append(@, Call(id, windowing_strategy_proto, TRUE,
                                       id, <<>>, {}))]
      ELSE IF windowing_strategy_proto.merge_status = NON_MERGING
      THEN LET safe_proto ==
                 [windowing_strategy_proto EXCEPT
                    !.urn = NON_MERGING_URN,
                    !.payload = windowing_strategy_proto.window_coder_id]
               put == [id |-> safe_id, proto |-> safe_proto]
           IN  [c EXCEPT
                  !.put_protos = Append(@, put),
                  !.calls = Append(@, Call(id, windowing_strategy_proto,
                                           TRUE, safe_id, <<put>>, {}))]
      ELSE IF NeedsMerge(windowing_strategy_proto.merge_status)
      THEN LET safe_proto ==
                 [windowing_strategy_proto EXCEPT
                    !.urn = MERGING_URN, !.payload = handle_id]
               put == [id |-> safe_id, proto |-> safe_proto]
           IN  [c EXCEPT
                  !.HANDLES = Registered(@, handle_id, ctx,
                                         windowing_strategy_proto),
                  !.nhandles = @ + 1,
                  !.put_protos = Append(@, put),
                  !.calls = Append(@, Call(id, windowing_strategy_proto,
                                           TRUE, safe_id, <<put>>,
                                           {handle_id}))]
      ELSE [c EXCEPT
              !.ok = FALSE,
              !.calls = Append(@, Call(id, windowing_strategy_proto, FALSE,
                                       "", <<>>, {}))]

RECURSIVE MakeSafeFrom(_, _, _, _)
\* the dict comprehension of __init__: one call per key, until one raises
MakeSafeFrom(c, strategies, ctx, k) ==
  IF k > Len(strategies) \/ ~c.ok THEN c
  ELSE MakeSafeFrom(
         MakeSafeWindowingStrategy(c, strategies, ctx, strategies[k].id),
         strategies, ctx, k + 1)

\* self.safe_windowing_strategies, from what the calls returned
SafeStrategiesOf(made) ==
  [id \in {made[i].id : i \in 1..Len(made)} |->
     made[CHOOSE i \in 1..Len(made) : made[i].id = id].ret]

\* faulty variant: the callbacks pop nothing
Popped_Nothing(handles, ctx) == handles

\* the weakref callback of every window fn of a context that is collected:
\* self._HANDLES.pop(handle_id, None)
Popped(handles, ctx) ==
  [h \in {x \in DOMAIN handles : handles[x].ctx # ctx} |-> handles[h]]

EcResult(name, ok) == [name |-> name, ok |-> ok]

WsResult(name, id, ret) == [name |-> name, id |-> id, ret |-> ret]

\* the last __init__ raised and its exception is still propagating
InitRaised == ec_op = EcResult("__init__", FALSE)

\* FnApiRunnerExecutionContext.__init__(stages, ..., pipeline_components,
\* ...); when a _make_safe_windowing_strategy call raises, no context is
\* constructed and the window fns registered before it are left to the
\* weakref callbacks
EC_Init(new_stages, strategies) ==
  LET ctx == nctx + 1
      c == MakeSafeFrom(
             [ok |-> TRUE, put_protos |-> <<>>, HANDLES |-> HANDLES,
              nhandles |-> nhandles, calls |-> <<>>],
             strategies, ctx, 1)
  IN  /\ ~ec_constructed
      /\ ~InitRaised
      /\ nctx < MaxContexts
      /\ nctx' = ctx
      /\ HANDLES' = c.HANDLES
      /\ nhandles' = c.nhandles
      /\ calls' = c.calls
      /\ ec_op' = EcResult("__init__", c.ok)
      /\ IF c.ok
         THEN /\ ec_constructed' = TRUE
              /\ stages' = new_stages
              /\ pipeline' = new_stages
              /\ windowing_strategies' = strategies
              /\ put_protos' = c.put_protos
              /\ safe_windowing_strategies' = SafeStrategiesOf(c.calls)
         ELSE UNCHANGED <<ec_constructed, stages, pipeline,
                          windowing_strategies, put_protos,
                          safe_windowing_strategies>>
      /\ ready_inputs' = <<>>
      /\ watermark_pending_inputs' = <<>>
      /\ time_pending_inputs' = <<>>
      /\ stage_managers' = EmptyMap
      /\ last_uid' = -1
      /\ UNCHANGED <<nsetup, ws_op, collected>>
      /\ UNCHANGED <<lbvars, gbvars, kqvars, ixvars, wkvars, rtvars>>

EC_Setup ==
  /\ ec_constructed
  /\ nsetup < MaxSetups
  /\ LET c == SetupFrom(
               [stages |-> stages, stage_managers |-> stage_managers,
                last_uid |-> last_uid, ready_inputs |-> ready_inputs,
                watermark_pending_inputs |-> watermark_pending_inputs], 1)
     IN  /\ stages' = c.stages
         /\ stage_managers' = c.stage_managers
         /\ last_uid' = c.last_uid
         /\ ready_inputs' = c.ready_inputs
         /\ watermark_pending_inputs' = c.watermark_pending_inputs
  /\ ec_op' = EcResult("setup", TRUE)
  /\ nsetup' = nsetup + 1
  /\ UNCHANGED <<ec_constructed, time_pending_inputs, pipeline>>
  /\ UNCHANGED <<lbvars, gbvars, kqvars, ixvars, wkvars, rtvars, wsvars>>

\* bundle_manager_for(stage, num_workers), for the k-th stage
EC_BundleManagerFor(k, num_workers) ==
  /\ ec_constructed
  /\ k \in 1..Len(stages)
  /\ LET c == WithManager([stage_managers |-> stage_managers,
                           last_uid |-> last_uid],
                          stages[k].name, num_workers)
     IN  /\ stage_managers' = c.stage_managers
         /\ last_uid' = c.last_uid
  /\ ec_op' = EcResult("bundle_manager_for", TRUE)
  /\ UNCHANGED <<ec_constructed, stages, ready_inputs,
                 watermark_pending_inputs, time_pending_inputs, pipeline,
                 nsetup>>
  /\ UNCHANGED <<lbvars, gbvars, kqvars, ixvars, wkvars, rtvars, wsvars>>

\* self.execution_context.safe_windowing_strategies[id]
EC_SafeWindowingStrategy(id) ==
  /\ ec_constructed
  /\ id \in DOMAIN safe_windowing_strategies
  /\ ws_op' = WsResult("lookup", id, safe_windowing_strategies[id])
  /\ UNCHANGED <<windowing_strategies, put_protos,
                 safe_windowing_strategies, HANDLES, nctx, nhandles, calls,
                 collected>>
  /\ UNCHANGED <<lbvars, gbvars, kqvars, ixvars, wkvars, rtvars, suvars>>

\* GenericMergingWindowFn.from_runner_api_parameter(handle_id, context),
\* called while a pipeline runs on the current context, with the id of a
\* window fn of this or of an earlier context: the window fn the table holds
\* under the id, told by its _handle_id
FromRunnerApiParameter(handle_id) ==
  /\ ec_constructed
  /\ ws_op' = IF handle_id \in DOMAIN HANDLES
              THEN WsResult("from_runner_api_parameter", handle_id,
                            HANDLES[handle_id].handle_id)
              ELSE WsResult("KeyError", handle_id, "")
  /\ UNCHANGED <<windowing_strategies, put_protos,
                 safe_windowing_strategies, HANDLES, nctx, nhandles, calls,
                 collected>>
  /\ UNCHANGED <<lbvars, gbvars, kqvars, ixvars, wkvars, rtvars, suvars>>

\* the last reference to the execution context is dropped, or the
\* exception of a failed __init__ has unwound
EC_Discard ==
  /\ ec_constructed \/ InitRaised
  /\ ec_constructed' = FALSE
  /\ stages' = <<>>
  /\ ready_inputs' = <<>>
  /\ watermark_pending_inputs' = <<>>
  /\ time_pending_inputs' = <<>>
  /\ stage_managers' = EmptyMap
  /\ last_uid' = -1
  /\ ec_op' = EcResult("none", TRUE)
  /\ pipeline' = <<>>
  /\ nsetup' = 0
  /\ windowing_strategies' = <<>>
  /\ put_protos' = <<>>
  /\ safe_windowing_strategies' = EmptyMap
  /\ ws_op' = WsResult("none", "", "")
  /\ calls' = <<>>
  /\ UNCHANGED <<HANDLES, nctx, nhandles, collected>>
  /\ UNCHANGED <<lbvars, gbvars, kqvars, ixvars, wkvars, rtvars>>

\* the contexts still referenced: the one constructed last, if any
Alive == IF ec_constructed THEN {nctx} ELSE {}

\* a context that is no longer referenced is garbage collected: the
\* weakref callbacks of its window fns run
GC_Collect(ctx) ==
  /\ ctx \in 1..nctx
  /\ ctx \notin Alive
  /\ ctx \notin collected
  /\ collected' = collected \cup {ctx}
  /\ HANDLES' = Popped(HANDLES, ctx)
  /\ UNCHANGED <<windowing_strategies, put_protos,
                 safe_windowing_strategies, nctx, nhandles, ws_op, calls>>
  /\ UNCHANGED <<lbvars, gbvars, kqvars, ixvars, wkvars, rtvars, suvars>>

----------------------------------------------------------------------------
(* GenericMergingWindowFn: merging windows in the worker                   *)
(* The fields of a window fn are written [worker_handler, counter,         *)
(* bundle_processor_id, coder_impls]; a uid is written <<handle id, name,   *)
(* counter>>.  A merge call writes, pushes and then reads what the worker   *)
(* sends: the worker's elements, the end of its stream and its response     *)
(* arrive one by one while the call waits.  Windows are numbers.            *)

WORKER_HANDLER == "worker_handler"

\* the number of uids make_process_bundle_descriptor takes before it asks
\* for the coder impls, and the number it takes in all
UidsBeforeImpls == 11
UidsOfDescriptor == 12

\* '%s_%s_%s' % (self._handle_id, name, self._counter)
Uid(handle_id, name, counter) == <<handle_id, name, counter>>

\* the fields GenericMergingWindowFn.__init__ sets
NewWindowFn ==
  [worker_handler |-> None, counter |-> 0, bundle_processor_id |-> <<>>,
   coder_impls |-> FALSE]

\* the fields of the window fn registered under a handle id
FieldsOf(h) == IF h \in DOMAIN wf THEN wf[h] ELSE NewWindowFn

\* make_process_bundle_descriptor(...) when nothing in it raises
MakeProcessBundleDescriptor(f, h) ==
  [f EXCEPT !.counter = @ + UidsOfDescriptor,
            !.coder_impls = TRUE,
            !.bundle_processor_id =
               Uid(h, "merge_windows", f.counter + UidsOfDescriptor)]

\* what may raise in worker_handle
Failures ==
  {"none", "get_worker_handlers", "make_process_bundle_descriptor",
   "register_process_bundle_descriptor"}

\* faulty variant: the descriptor is built and registered on every call
HasNoWorkerHandler_Always(f) == TRUE

\* if self._worker_handler is None
HasNoWorkerHandler(f) == f.worker_handler = None

\* worker_handle(), on the fields f of the window fn h: the fields after
\* it, whether it raised, whether it got a worker handler and the
\* descriptor id it registered
WorkerHandle(f, h, fails) ==
  IF ~HasNoWorkerHandler(f)
  THEN [f |-> f, raised |-> FALSE, got |-> FALSE, reg |-> None]
  ELSE IF fails = "get_worker_handlers"
  THEN [f |-> f, raised |-> TRUE, got |-> FALSE, reg |-> None]
  ELSE LET f1 == [f EXCEPT !.worker_handler = Some(WORKER_HANDLER)]
           f2 == MakeProcessBundleDescriptor(f1, h)
       IN  IF fails = "make_process_bundle_descriptor"
           THEN [f |-> [f1 EXCEPT !.counter = @ + UidsBeforeImpls],
                 raised |-> TRUE, got |-> TRUE, reg |-> None]
           ELSE IF fails = "register_process_bundle_descriptor"
           THEN [f |-> f2, raised |-> TRUE, got |-> TRUE, reg |-> None]
           ELSE [f |-> f2, raised |-> FALSE, got |-> TRUE,
                 reg |-> Some(f2.bundle_processor_id)]

\* a (merge_result, originals) pair of the worker's output
MergePair(originals, merge_result) ==
  [originals |-> originals, merge_result |-> merge_result]

NoPair == MergePair(<<>>, 0)

\* the elements the worker sends: Elements.Data with the pairs decoded from
\* it, or Elements.Timers
Data(pairs) == [kind |-> "data", pairs |-> pairs]
Timers == [kind |-> "timers", pairs |-> <<>>]
WorkerElements ==
  {Data(<<MergePair(<<1, 2>>, 3)>>),
   Data(<<MergePair(<<1, 2>>, 3), MergePair(<<4>>, 4)>>),
   Timers}

\* merge_context.windows of the calls
MergeWindows == {<<1, 2>>, <<1, 2, 4>>}

\* the errors of a worker's response ("" is no error)
WorkerErrors == {"", "error"}

\* one thing a merge call did
Event(ev, id, descriptor_id, windows, pair) ==
  [ev |-> ev, id |-> id, descriptor_id |-> descriptor_id,
   windows |-> windows, pair |-> pair]

\* faulty variant: the instruction is pushed before the windows are written
Sent_PushFirst(id, descriptor_id, windows) ==
  << Event("push", id, descriptor_id, <<>>, NoPair),
     Event("write", id, <<>>, windows, NoPair),
     Event("close", id, <<>>, <<>>, NoPair),
     Event("input_elements", id, <<>>, <<>>, NoPair) >>

\* what merge does from output_stream(...) to input_elements(...)
Sent(id, descriptor_id, windows) ==
  << Event("write", id, <<>>, windows, NoPair),
     Event("close", id, <<>>, <<>>, NoPair),
     Event("push", id, descriptor_id, <<>>, NoPair),
     Event("input_elements", id, <<>>, <<>>, NoPair) >>

\* for merge_result, originals in windowed_result.value[1][1]:
\*   merge_context.merge(originals, merge_result)
Callbacks(id, pairs) ==
  [k \in 1..Len(pairs) |-> Event("merge", id, <<>>, <<>>, pairs[k])]

\* a merge call: the window fn and its fields when the call began, how far
\* the call is, its windows and its instruction id, the elements the
\* worker sent for it and the error of the worker's response
MergeCall(h, before, status, windows, id) ==
  [h |-> h, before |-> before, status |-> status, windows |-> windows,
   id |-> id, outputs |-> <<>>, error |-> ""]

\* what is kept of a merge call that ended: how it ended and the fields of
\* the window fn before and after it
Ended(call, status, after) ==
  [h |-> call.h, status |-> status, id |-> call.id, error |-> call.error,
   before |-> call.before, after |-> after]

\* faulty variant: the error of the response is not looked at
Outcome_Returned(error) == "returned"

\* result = result_future.get(); if result.error: raise RuntimeError(...)
Outcome(error) == IF error # "" THEN "raised" ELSE "returned"

\* merge(merge_context) up to the first read of the worker's output
MergeStart(h, windows, fails) ==
  /\ ec_constructed
  /\ h \in DOMAIN HANDLES
  /\ mg_call.status # "reading"
  /\ Len(merges) < MaxMerges
  /\ LET w == WorkerHandle(FieldsOf(h), h, fails)
         process_bundle_id == Uid(h, "process", w.f.counter + 1)
         f == [w.f EXCEPT !.counter = @ + 1]
         raised == MergeCall(h, FieldsOf(h), "raised", windows, <<>>)
     IN  /\ obtained' = IF w.got THEN Append(obtained, h) ELSE obtained
         /\ registered' = IF w.reg # None
                          THEN Append(registered, w.reg[1]) ELSE registered
         /\ data_out' = <<>>
         /\ stream_done' = FALSE
         /\ result' = None
         /\ IF w.raised \/ ~w.f.coder_impls
            THEN /\ wf' = [x \in DOMAIN wf \cup {h} |->
                             IF x = h THEN w.f ELSE wf[x]]
                 /\ mg_call' = raised
                 /\ trace' = <<>>
                 /\ merges' = Append(merges, Ended(raised, "raised", w.f))
            ELSE /\ wf' = [x \in DOMAIN wf \cup {h} |->
                             IF x = h THEN f ELSE wf[x]]
                 /\ mg_call' = MergeCall(h, FieldsOf(h), "reading", windows,
                                         process_bundle_id)
                 /\ trace' = Sent(process_bundle_id, f.bundle_processor_id,
                                  windows)
                 /\ merges' = merges
  /\ UNCHANGED <<lbvars, gbvars, kqvars, ixvars, wkvars, suvars, wsvars, bfvars>>

\* the worker sends an element of the output of the instruction
WorkerSend(e) ==
  /\ mg_call.status = "reading"
  /\ ~stream_done
  /\ Len(mg_call.outputs) < MaxOutputs
  /\ data_out' = Append(data_out, e)
  /\ mg_call' = [mg_call EXCEPT !.outputs = Append(@, e)]
  /\ UNCHANGED <<wf, registered, obtained, trace, stream_done, result,
                 merges>>
  /\ UNCHANGED <<lbvars, gbvars, kqvars, ixvars, wkvars, suvars, wsvars, bfvars>>

\* the worker ends the output of the instruction
WorkerEndStream ==
  /\ mg_call.status = "reading"
  /\ ~stream_done
  /\ stream_done' = TRUE
  /\ UNCHANGED <<wf, registered, obtained, mg_call, trace, data_out, result,
                 merges>>
  /\ UNCHANGED <<lbvars, gbvars, kqvars, ixvars, wkvars, suvars, wsvars, bfvars>>

\* the worker responds to the instruction
WorkerRespond(error) ==
  /\ mg_call.status = "reading"
  /\ result = None
  /\ result' = Some(error)
  /\ mg_call' = [mg_call EXCEPT !.error = error]
  /\ UNCHANGED <<wf, registered, obtained, trace, data_out, stream_done,
                 merges>>
  /\ UNCHANGED <<lbvars, gbvars, kqvars, ixvars, wkvars, suvars, wsvars, bfvars>>

\* faulty variant: result_future.get() returns without a response
IsDone_Always(future) == TRUE

\* result_future.is_done(), and result_future.get() returns: the worker
\* has responded
IsDone(future) == future # None

\* the error of the response of a future
ErrorOf(future) == IF future = None THEN "" ELSE future[1]

\* the merge call ends: it returns or raises
MergeEnds(status) ==
  /\ mg_call' = [mg_call EXCEPT !.status = status]
  /\ merges' = Append(merges, Ended(mg_call, status, FieldsOf(mg_call.h)))

\* one turn of the loop over input_elements(...)
MergeRead ==
  /\ mg_call.status = "reading"
  /\ data_out # <<>>
  /\ LET output == Head(data_out)
     IN  /\ data_out' = Tail(data_out)
         /\ IF output.kind = "data"
            THEN /\ trace' = trace \o Callbacks(mg_call.id, output.pairs)
                 /\ UNCHANGED <<mg_call, merges>>
            ELSE /\ trace' = trace
                 /\ MergeEnds("raised")
  /\ UNCHANGED <<wf, registered, obtained, stream_done, result>>
  /\ UNCHANGED <<lbvars, gbvars, kqvars, ixvars, wkvars, suvars, wsvars, bfvars>>

\* abort_callback: the response is there and carries an error; the loop
\* ends and merge raises the error
MergeAbort ==
  /\ mg_call.status = "reading"
  /\ IsDone(result) /\ ErrorOf(result) # ""
  /\ MergeEnds(Outcome(ErrorOf(result)))
  /\ UNCHANGED <<wf, registered, obtained, trace, data_out, stream_done,
                 result>>
  /\ UNCHANGED <<lbvars, gbvars, kqvars, ixvars, wkvars, suvars, wsvars, bfvars>>

\* the output ended: result_future.get() and the test of its error
MergeFinish ==
  /\ mg_call.status = "reading"
  /\ data_out = <<>> /\ stream_done
  /\ IsDone(result)
  /\ MergeEnds(Outcome(ErrorOf(result)))
  /\ UNCHANGED <<wf, registered, obtained, trace, data_out, stream_done,
                 result>>
  /\ UNCHANGED <<lbvars, gbvars, kqvars, ixvars, wkvars, suvars, wsvars, bfvars>>

----------------------------------------------------------------------------
(* BundleContextManager and the buffers of the execution context           *)
(* A buffer is written [type, ref, made_by, contents]: its class, the      *)
(* number of its construction (its identity), the stage whose manager      *)
(* constructed it (or commit_side_inputs_to_state) and the chunks          *)
(* appended to it.  A buffer id is the string 'kind:name'.                  *)

MATERIALIZE_PC == "materialize:pc"
MATERIALIZE_SIDE == "materialize:side"
TIMERS_TF == "timers:tf"
GROUP_GBK == "group:gbk"
SIDE_PC == "side:pc"

\* the buffer ids get_buffer is asked for
BufferIds == {MATERIALIZE_PC, MATERIALIZE_SIDE, TIMERS_TF, GROUP_GBK, SIDE_PC}

\* split_buffer_id(buffer_id): the kind and the name
SplitBufferId(buffer_id) ==
  CASE buffer_id = MATERIALIZE_PC -> <<"materialize", "pc">>
    [] buffer_id = MATERIALIZE_SIDE -> <<"materialize", "side">>
    [] buffer_id = TIMERS_TF -> <<"timers", "tf">>
    [] buffer_id = GROUP_GBK -> <<"group", "gbk">>
    [] buffer_id = SIDE_PC -> <<"side", "pc">>

\* the stages of the context whose bundles use the buffers: a ParDo with a
\* timer family after a read, and a read followed by a write
BundlePipelines ==
  {<<Stage("A", <<Transform(DATA_INPUT_URN, IMPULSE_BUFFER, FALSE),
                  Transform(PAR_DO_URN, "", FALSE)>>),
     Stage("B", <<Transform(DATA_INPUT_URN, OTHER_BUFFER, FALSE),
                  Transform(DATA_OUTPUT_URN, OTHER_BUFFER, FALSE)>>)>>}

\* the transforms of the stage of a name
TransformsOf(name) ==
  LET k == CHOOSE i \in 1..Len(stages) : stages[i].name = name
  IN  stages[k].transforms

Buffer(type, ref, made_by) ==
  [type |-> type, ref |-> ref, made_by |-> made_by, contents |-> <<>>]

\* the process_bundle_descriptor property on the fields m of a manager:
\* built on the first access that gets worker handlers, then kept
WithDescriptor(m, ok) ==
  IF m.process_bundle_descriptor # None THEN [m |-> m, raised |-> FALSE]
  ELSE IF ~ok THEN [m |-> m, raised |-> TRUE]
  ELSE [m |-> [m EXCEPT !.process_bundle_descriptor = Some(m.bundle_uid),
                        !.built = @ + 1],
        raised |-> FALSE]

\* get_input_coder_impl(transform_id) finds a coder id: the transform is
\* one of the stage and its payload is a RemoteGrpcPort
HasInputCoder(transforms, transform_id) ==
  /\ transform_id \in 1..Len(transforms)
  /\ transforms[transform_id].payload = REMOTE_GRPC_PORT

\* get_timer_coder_impl(transform_id, timer_family_id) finds a coder id:
\* the descriptor is built and the transform is a ParDo, which declares
\* the timer family
HasTimerCoder(m, transforms, transform_id) ==
  /\ m.process_bundle_descriptor # None
  /\ transform_id \in 1..Len(transforms)
  /\ transforms[transform_id].urn = PAR_DO_URN

\* a table with a new buffer under an id
WithBuffer(table, buffer_id, buffer) ==
  [x \in DOMAIN table \cup {buffer_id} |->
     IF x = buffer_id THEN buffer ELSE table[x]]

\* faulty variant: get_buffer makes a ListBuffer for every kind
BufferClass_List(kind) == "ListBuffer"

\* the class of the buffer get_buffer makes for a kind
BufferClass(kind) ==
  IF kind = "group" THEN "GroupingBuffer" ELSE "ListBuffer"

\* faulty variant: get_buffer makes a new buffer on every call
IsMissing_Always(table, buffer_id) == TRUE

\* buffer_id not in table
IsMissing(table, buffer_id) == buffer_id \notin DOMAIN table

\* get_buffer(buffer_id, transform_id) of the manager with the fields m for
\* the stage of a name and of these transforms, on the tables c: the tables
\* and the manager after it, whether it raised and the buffer it returned
GetBuffer(c, m, name, transforms, buffer_id, transform_id, ok) ==
  LET kind == SplitBufferId(buffer_id)[1]
      raises == [pcoll_buffers |-> c.pcoll_buffers,
                 timer_buffers |-> c.timer_buffers, nbuffers |-> c.nbuffers,
                 m |-> m, raised |-> TRUE, ret |-> None]
      made == Buffer(BufferClass(kind), c.nbuffers + 1, name)
  IN  IF kind = "materialize"
      THEN IF IsMissing(c.pcoll_buffers, buffer_id)
           THEN LET d == WithDescriptor(m, ok)
                IN  IF d.raised \/ ~HasInputCoder(transforms, transform_id)
                    THEN [raises EXCEPT !.m = d.m]
                    ELSE [pcoll_buffers |->
                            WithBuffer(c.pcoll_buffers, buffer_id,
                                       made),
                          timer_buffers |-> c.timer_buffers,
                          nbuffers |-> c.nbuffers + 1, m |-> d.m,
                          raised |-> FALSE,
                          ret |-> Some(made)]
           ELSE [raises EXCEPT !.raised = FALSE,
                               !.ret = Some(c.pcoll_buffers[buffer_id])]
      ELSE IF kind = "timers"
      THEN IF IsMissing(c.timer_buffers, buffer_id)
           THEN IF ~HasTimerCoder(m, transforms, transform_id)
                THEN raises
                ELSE [pcoll_buffers |-> c.pcoll_buffers,
                      timer_buffers |->
                        WithBuffer(c.timer_buffers, buffer_id,
                                   made),
                      nbuffers |-> c.nbuffers + 1, m |-> m,
                      raised |-> FALSE, ret |-> Some(made)]
           ELSE [raises EXCEPT !.raised = FALSE,
                               !.ret = Some(c.timer_buffers[buffer_id])]
      ELSE IF kind = "group"
      THEN IF IsMissing(c.pcoll_buffers, buffer_id)
           THEN [pcoll_buffers |->
                   WithBuffer(c.pcoll_buffers, buffer_id,
                              made),
                 timer_buffers |-> c.timer_buffers,
                 nbuffers |-> c.nbuffers + 1, m |-> m, raised |-> FALSE,
                 ret |-> Some(made)]
           ELSE [raises EXCEPT !.raised = FALSE,
                               !.ret = Some(c.pcoll_buffers[buffer_id])]
      ELSE raises

\* a call on the buffers: its name, the manager and the buffer id or the
\* side inputs it was made with, whether it raised, what it returned, and
\* the tables and the number of state writes before it
BfResult(name, stage, buffer_id, side_inputs, raised, ret, before) ==
  [name |-> name, stage |-> stage, buffer_id |-> buffer_id,
   side_inputs |-> side_inputs, raised |-> raised, ret |-> ret,
   before |-> before]

\* the two tables, and the number of state writes made
Tables ==
  [pcoll_buffers |-> pcoll_buffers, timer_buffers |-> timer_buffers,
   nappends |-> Len(state_appends)]

\* bundle_manager_for(stage).get_buffer(buffer_id, transform_id)
BM_GetBuffer(name, buffer_id, transform_id, ok) ==
  /\ ec_constructed
  /\ name \in DOMAIN stage_managers
  /\ ncalls < MaxCalls
  /\ LET r == GetBuffer([pcoll_buffers |-> pcoll_buffers,
                         timer_buffers |-> timer_buffers,
                         nbuffers |-> nbuffers],
                        stage_managers[name], name, TransformsOf(name),
                        buffer_id, transform_id, ok)
     IN  /\ pcoll_buffers' = r.pcoll_buffers
         /\ timer_buffers' = r.timer_buffers
         /\ nbuffers' = r.nbuffers
         /\ stage_managers' = [stage_managers EXCEPT ![name] = r.m]
         /\ bf_op' = BfResult("get_buffer", name, buffer_id, <<>>, r.raised,
                              r.ret, Tables)
  /\ ncalls' = ncalls + 1
  /\ UNCHANGED state_appends
  /\ UNCHANGED <<ec_constructed, stages, ready_inputs,
                 watermark_pending_inputs, time_pending_inputs, last_uid,
                 ec_op, pipeline, nsetup>>
  /\ UNCHANGED <<lbvars, gbvars, kqvars, ixvars, wkvars, wsvars, mgvars>>

\* the process_bundle_descriptor property of the manager of a stage
BM_ProcessBundleDescriptor(name, ok) ==
  /\ ec_constructed
  /\ name \in DOMAIN stage_managers
  /\ LET d == WithDescriptor(stage_managers[name], ok)
     IN  /\ stage_managers' = [stage_managers EXCEPT ![name] = d.m]
         /\ ec_op' = EcResult("process_bundle_descriptor", ~d.raised)
  /\ UNCHANGED <<ec_constructed, stages, ready_inputs,
                 watermark_pending_inputs, time_pending_inputs, last_uid,
                 pipeline, nsetup>>
  /\ UNCHANGED <<lbvars, gbvars, kqvars, ixvars, wkvars, wsvars, rtvars>>

\* a windowed value: a value (a key byte and a value byte) in windows
WindowedValue(value, windows) == [value |-> value, windows |-> windows]

RECURSIVE ChunksIn(_, _)

\* the chunks a bundle appends to a buffer, each written as the windowed
\* values decoded from it
BundleChunks ==
  {<<WindowedValue(<<1, 5>>, <<1>>)>>,
   <<WindowedValue(<<1, 6>>, <<1, 2>>), WindowedValue(<<2, 7>>, <<2>>)>>}

\* the number of chunks the buffers of a table hold
ChunksIn(table, ids) ==
  IF ids = {} THEN 0
  ELSE LET id == CHOOSE x \in ids : TRUE
       IN  Len(table[id].contents) + ChunksIn(table, ids \ {id})

\* buffer.append(chunk) on a buffer of a table
Buffer_Append(table, buffer_id, chunk) ==
  /\ ec_constructed
  /\ ChunksIn(pcoll_buffers, DOMAIN pcoll_buffers)
       + ChunksIn(timer_buffers, DOMAIN timer_buffers) < MaxChunks
  /\ IF table = "timer_buffers"
     THEN /\ buffer_id \in DOMAIN timer_buffers
          /\ timer_buffers' =
               [timer_buffers EXCEPT ![buffer_id].contents = Append(@, chunk)]
          /\ UNCHANGED pcoll_buffers
     ELSE /\ buffer_id \in DOMAIN pcoll_buffers
          /\ pcoll_buffers' =
               [pcoll_buffers EXCEPT ![buffer_id].contents = Append(@, chunk)]
          /\ UNCHANGED timer_buffers
  /\ UNCHANGED <<nbuffers, state_appends, bf_op, ncalls>>
  /\ UNCHANGED <<lbvars, gbvars, kqvars, ixvars, wkvars, suvars, wsvars, mgvars>>

ITERABLE_URN == "beam:side_input:iterable:v1"
MULTIMAP_URN == "beam:side_input:multimap:v1"
OTHER_SIDE_INPUT_URN == "beam:side_input:other"

\* an item of data_side_input: (transform id, tag) -> (buffer id, func_spec)
SideInput(transform_id, tag, buffer_id, urn) ==
  [transform_id |-> transform_id, tag |-> tag, buffer_id |-> buffer_id,
   urn |-> urn]

\* the dicts passed to commit_side_inputs_to_state, as iterated
SideInputMaps ==
  LET urns == {ITERABLE_URN, MULTIMAP_URN, OTHER_SIDE_INPUT_URN}
      s1(u) == SideInput(2, "s1", MATERIALIZE_SIDE, u)
      s2(u) == SideInput(2, "s2", MATERIALIZE_PC, u)
  IN  {<<s1(u)>> : u \in urns}
        \cup {<<s1(u), s2(v)>> :
                u \in urns, v \in {ITERABLE_URN, OTHER_SIDE_INPUT_URN}}

\* faulty variant: every access pattern is taken for the iterable one
KnownAccessPattern_Any(urn) == TRUE

\* WindowGroupingBuffer.__init__ does not raise, and neither does the else
\* branch of commit_side_inputs_to_state
KnownAccessPattern(urn) == urn \in {ITERABLE_URN, MULTIMAP_URN}

\* self._kv_extractor(windowed_value.value): the key and the value, as
\* byte strings
KvExtractor(urn, value) ==
  IF urn = MULTIMAP_URN
  THEN [key |-> <<value[1]>>, value |-> <<value[2]>>]
  ELSE [key |-> <<>>, value |-> value]

RECURSIVE AddToWindows(_, _, _, _)
\* for window in windowed_value.windows:
\*   self._values_by_window[key, window].append(value)
\* on the dict written as the sequence of its items
AddToWindows(by_window, key, value, windows) ==
  IF windows = <<>> THEN by_window
  ELSE LET window == Head(windows)
           hit == {i \in 1..Len(by_window) :
                     by_window[i].key = key /\ by_window[i].window = window}
           next ==
             IF hit # {}
             THEN [i \in 1..Len(by_window) |->
                     IF i \in hit
                     THEN [by_window[i] EXCEPT !.values = Append(@, value)]
                     ELSE by_window[i]]
             ELSE Append(by_window,
                         [key |-> key, window |-> window,
                          values |-> <<value>>])
       IN  AddToWindows(next, key, value, Tail(windows))

\* faulty variant: a value goes to its first window only
WindowsOf_First(windowed_value) == <<windowed_value.windows[1]>>

\* windowed_value.windows
WindowsOf(windowed_value) == windowed_value.windows

RECURSIVE GroupedByWindow(_, _, _)
\* WindowGroupingBuffer.append for every element_data of the buffer: the
\* windowed values of all chunks, in order
GroupedByWindow(by_window, urn, windowed_values) ==
  IF windowed_values = <<>> THEN by_window
  ELSE LET kv == KvExtractor(urn, Head(windowed_values).value)
       IN  GroupedByWindow(
             AddToWindows(by_window, kv.key, kv.value,
                          WindowsOf(Head(windowed_values))),
             urn, Tail(windowed_values))

RECURSIVE Flattened(_)
\* the windowed values of a sequence of chunks
Flattened(chunks) ==
  IF chunks = <<>> THEN <<>> ELSE Head(chunks) \o Flattened(Tail(chunks))

\* self._window_coder.encode(window)
EncodeWindow(window) == <<window>>

\* key_coder_impl.encode_nested(key): nothing for the singleton coder of
\* the iterable pattern
EncodeKey(urn, key) == IF urn = MULTIMAP_URN THEN EncodeNested(key) ELSE <<>>

\* struct.pack('>i', elements_count)
PackInt(n) == <<0, 0, 0, n>>

StateKey(type, side_input, window, key) ==
  [type |-> type, transform_id |-> side_input.transform_id,
   side_input_id |-> side_input.tag, window |-> window, key |-> key]

AppendRaw(state_key, data) == [state_key |-> state_key, data |-> data]

\* the append_raw calls made for one item of encoded_items()
StateWrites(side_input, item) ==
  LET window == EncodeWindow(item.window)
      key == EncodeKey(side_input.urn, item.key)
      elements_data == EncodeAll(item.values)
  IN  IF side_input.urn = ITERABLE_URN
      THEN <<AppendRaw(StateKey("iterable_side_input", side_input, window,
                                <<>>), elements_data)>>
      ELSE <<AppendRaw(StateKey("multimap_side_input", side_input, window,
                                key), elements_data),
             AppendRaw(StateKey("multimap_keys_side_input", side_input,
                                window, <<>>), key),
             AppendRaw(StateKey("multimap_keys_values_side_input",
                                side_input, window, <<>>),
                       key \o PackInt(Len(item.values)) \o elements_data)>>

RECURSIVE AllStateWrites(_, _)
AllStateWrites(side_input, items) ==
  IF items = <<>> THEN <<>>
  ELSE StateWrites(side_input, Head(items))
         \o AllStateWrites(side_input, Tail(items))

RECURSIVE CommitFrom(_, _, _)
\* the loop of commit_side_inputs_to_state from the k-th item on, on the
\* fields c
CommitFrom(c, data_side_input, k) ==
  IF k > Len(data_side_input) \/ c.raised THEN c
  ELSE LET side_input == data_side_input[k]
           buffer_id == side_input.buffer_id
           buffers ==
             IF IsMissing(c.pcoll_buffers, buffer_id)
             THEN WithBuffer(c.pcoll_buffers, buffer_id,
                             Buffer("ListBuffer", c.nbuffers + 1,
                                    "commit_side_inputs_to_state"))
             ELSE c.pcoll_buffers
           items == GroupedByWindow(<<>>, side_input.urn,
                                    Flattened(buffers[buffer_id].contents))
       IN  IF ~KnownAccessPattern(side_input.urn)
           THEN [c EXCEPT !.raised = TRUE]
           ELSE CommitFrom(
                  [pcoll_buffers |-> buffers,
                   nbuffers |-> IF IsMissing(c.pcoll_buffers, buffer_id)
                                THEN c.nbuffers + 1 ELSE c.nbuffers,
                   state_appends |->
                     c.state_appends \o AllStateWrites(side_input, items),
                   raised |-> FALSE],
                  data_side_input, k + 1)

\* commit_side_inputs_to_state(data_side_input)
EC_CommitSideInputsToState(data_side_input) ==
  /\ ec_constructed
  /\ ncalls < MaxCalls
  /\ LET c == CommitFrom([pcoll_buffers |-> pcoll_buffers,
                          nbuffers |-> nbuffers,
                          state_appends |-> state_appends,
                          raised |-> FALSE], data_side_input, 1)
     IN  /\ pcoll_buffers' = c.pcoll_buffers
         /\ nbuffers' = c.nbuffers
         /\ state_appends' = c.state_appends
         /\ bf_op' = BfResult("commit_side_inputs_to_state", "", "",
                              data_side_input, c.raised, None, Tables)
  /\ ncalls' = ncalls + 1
  /\ UNCHANGED timer_buffers
  /\ UNCHANGED <<lbvars, gbvars, kqvars, ixvars, wkvars, suvars, wsvars, mgvars>>

----------------------------------------------------------------------------
(* The static indices of the execution context: the three dictionaries of  *)
(* _compute_pipeline_dictionaries (execution.py 738-766) and the map of    *)
(* _build_data_side_inputs_map (827-884), both computed in __init__ from   *)
(* the stages.  A stage is Stage(name, transforms); a transform carries    *)
(* its unique name, the urn and payload of its spec, its inputs and        *)
(* outputs (tag -> PCollection) and the side inputs of its ParDo payload   *)
(* (tag -> access pattern).                                                *)

\* largest number of transforms in the pipelines the indices are built of
MaxIndexed == 3

PTransform(unique_name, urn, payload, inputs, outputs, side_inputs) ==
  [unique_name |-> unique_name, urn |-> urn, payload |-> payload,
   inputs |-> inputs, outputs |-> outputs, side_inputs |-> side_inputs]

\* the unique name of the i-th transform of a pipeline
UniqueName(i) == <<"transform", i>>

\* d.values() of a dict
Values(d) == {d[k] : k \in DOMAIN d}

\* d[k] = v on a dict
SetItem(d, k, v) == [x \in DOMAIN d \cup {k} |-> IF x = k THEN v ELSE d[x]]

\* the three dictionaries
Dictionaries(i2b, p2p, b2c) ==
  [input_transform_to_buffer_id |-> i2b,
   pcollection_to_producer_transform |-> p2p,
   buffer_id_to_consumer_pairs |-> b2c]

\* the body of the inner loop for transform t of the stage named s_name
IndexTransform(ix, s_name, t) ==
  LET buffer_id == t.payload IN
  IF t.urn = DATA_INPUT_URN
  THEN LET i2b == SetItem(ix.input_transform_to_buffer_id,
                          t.unique_name, buffer_id)
       IN IF t.payload = IMPULSE_BUFFER
          THEN Dictionaries(
                 i2b,
                 SetItem(ix.pcollection_to_producer_transform,
                         IMPULSE_BUFFER, None),
                 ix.buffer_id_to_consumer_pairs)
          ELSE LET input_pcoll == SplitBufferId(buffer_id)[2]
                   p2p == ix.pcollection_to_producer_transform
                   b2c == ix.buffer_id_to_consumer_pairs
                   pairs == IF buffer_id \in DOMAIN b2c
                            THEN b2c[buffer_id] ELSE {}
               IN Dictionaries(
                    i2b,
                    IF input_pcoll \in DOMAIN p2p
                    THEN p2p ELSE SetItem(p2p, input_pcoll, None),
                    SetItem(b2c, buffer_id,
                            pairs \cup {<<s_name, t.unique_name>>}))
  ELSE IF t.urn = DATA_OUTPUT_URN
  THEN Dictionaries(
         ix.input_transform_to_buffer_id,
         SetItem(ix.pcollection_to_producer_transform,
                 SplitBufferId(buffer_id)[2], Some(t.unique_name)),
         ix.buffer_id_to_consumer_pairs)
  ELSE ix

RECURSIVE IndexTransforms(_, _, _)
\* for t in s.transforms
IndexTransforms(ix, s_name, transforms) ==
  IF transforms = <<>> THEN ix
  ELSE IndexTransforms(IndexTransform(ix, s_name, Head(transforms)),
                       s_name, Tail(transforms))

RECURSIVE IndexStages(_, _)
\* for s in self.stages.values()
IndexStages(ix, stgs) ==
  IF stgs = <<>> THEN ix
  ELSE IndexStages(IndexTransforms(ix, Head(stgs).name,
                                   Head(stgs).transforms),
                   Tail(stgs))

\* _compute_pipeline_dictionaries on dictionaries that are empty
ComputePipelineDictionaries(stgs) ==
  IndexStages(Dictionaries(EmptyMap, EmptyMap, EmptyMap), stgs)

\* the specs of the transforms the dictionaries are built of: a read of the
\* impulse, a read and a write of one PCollection, a read of a grouped
\* PCollection, and a ParDo
IndexedSpecs ==
  {<<DATA_INPUT_URN, IMPULSE_BUFFER>>, <<DATA_INPUT_URN, MATERIALIZE_PC>>,
   <<DATA_OUTPUT_URN, MATERIALIZE_PC>>, <<DATA_INPUT_URN, GROUP_GBK>>,
   <<PAR_DO_URN, "">>}

\* the names of the stages, in the order of the list passed to __init__
StageNames == <<"A", "B">>

\* the stages holding the transforms placed: placed[i] names the stage of
\* the i-th transform and says what it is
StagesOf(placed) ==
  [k \in 1..Len(StageNames) |->
     LET mine == SelectSeq(placed, LAMBDA x : x.stage = StageNames[k])
     IN Stage(StageNames[k], [i \in 1..Len(mine) |-> mine[i].transform])]

\* the ways to place n transforms with some of the specs in the stages
Placings(n, specs) == [1..n -> Range(StageNames) \X specs]

\* the pipeline of transforms placed so, each with a payload and no inputs
IndexedPipeline(a) ==
  StagesOf([i \in DOMAIN a |->
              [stage |-> a[i][1],
               transform |-> PTransform(UniqueName(i), a[i][2][1],
                                        a[i][2][2], EmptyMap, EmptyMap,
                                        EmptyMap)]])

\* __init__, lines 702-709: the dictionaries start empty and are filled
EC_ComputePipelineDictionaries(stgs) ==
  /\ ix_op = "none"
  /\ ix_stages' = stgs
  /\ LET ix == ComputePipelineDictionaries(stgs) IN
       /\ input_transform_to_buffer_id' = ix.input_transform_to_buffer_id
       /\ pcollection_to_producer_transform'
            = ix.pcollection_to_producer_transform
       /\ buffer_id_to_consumer_pairs' = ix.buffer_id_to_consumer_pairs
  /\ ix_op' = "_compute_pipeline_dictionaries"
  /\ UNCHANGED side_input_descriptors_by_stage
  /\ UNCHANGED <<lbvars, gbvars, kqvars, wkvars, suvars, wsvars, rtvars>>

\* Stage.side_inputs(): the PCollections the ParDos of a stage read as side
\* inputs
SideInputsOf(stage) ==
  UNION {{t.inputs[tag] : tag \in DOMAIN t.side_inputs} :
           t \in {x \in Range(stage.transforms) : x.urn = PAR_DO_URN}}

\* the PCollections the transforms of a stage output
OutputsOf(stage) ==
  UNION {Values(t.outputs) : t \in Range(stage.transforms)}

\* faulty variant: the outputs the stage reads as side inputs count as well
Produced_Any(stage) == OutputsOf(stage)

\* lines 862-864: the outputs of a stage that it does not read as side input
Produced(stage) == OutputsOf(stage) \ SideInputsOf(stage)

RECURSIVE ProducingStages(_, _)
\* lines 859-867: producing_stages_by_pcoll, the first stage in the order of
\* the list wins
ProducingStages(by_pcoll, stgs) ==
  IF stgs = <<>> THEN by_pcoll
  ELSE ProducingStages(
         [o \in DOMAIN by_pcoll \cup Produced(Head(stgs)) |->
            IF o \in DOMAIN by_pcoll THEN by_pcoll[o] ELSE Head(stgs).name],
         Tail(stgs))

\* translations.create_buffer_id(name): 'materialize:' + name
CreateBufferId(name) ==
  CASE name = "pc" -> MATERIALIZE_PC
    [] name = "side" -> MATERIALIZE_SIDE

\* all transforms of the stages
AllTransforms(stgs) == UNION {Range(stgs[k].transforms) : k \in 1..Len(stgs)}

\* transform_consumers[pcoll] as the last loop uses it: the ParDos having the
\* PCollection among their inputs (a transform listed twice is assigned the
\* same entries twice)
ParDoConsumers(stgs, pcoll) ==
  {t \in AllTransforms(stgs) :
     t.urn = PAR_DO_URN /\ pcoll \in Values(t.inputs)}

\* lines 869-882 for the stage named name: the side input ids assigned under
\* it, each with its buffer id and access pattern
DataSideInput(stgs, producing, name) ==
  LET ids == {<<t.unique_name, tag>> :
                <<t, tag>> \in
                  {x \in AllTransforms(stgs) \X {"main", "s1", "s2"} :
                     /\ x[1].urn = PAR_DO_URN
                     /\ x[2] \in DOMAIN x[1].side_inputs
                     /\ producing[x[1].inputs[x[2]]] = name}}
      by_name(n) == CHOOSE t \in AllTransforms(stgs) : t.unique_name = n
  IN [id \in ids |->
        <<CreateBufferId(by_name(id[1]).inputs[id[2]]),
          by_name(id[1]).side_inputs[id[2]]>>]

\* _build_data_side_inputs_map(stages): None when the lookup at line 873
\* raises KeyError, else the map
BuildDataSideInputsMap(stgs) ==
  LET all_side_inputs == UNION {SideInputsOf(stgs[k]) : k \in 1..Len(stgs)}
      producing == ProducingStages(EmptyMap, stgs)
  IN IF \E side_pc \in all_side_inputs :
          /\ ParDoConsumers(stgs, side_pc) # {}
          /\ side_pc \notin DOMAIN producing
     THEN None
     ELSE Some([name \in {stgs[k].name : k \in 1..Len(stgs)} |->
                  DataSideInput(stgs, producing, name)])

\* what the transforms of the side-input pipelines are: a ParDo and a read
\* that output the PCollection 'side', a read that outputs 'pc', a write of
\* 'side', a ParDo reading 'side' as side input, one reading it under two
\* tags, and one that outputs 'side' and reads 'pc' as side input
SideInputSpecs ==
  {<<PAR_DO_URN, EmptyMap, [out |-> "side"], EmptyMap>>,
   <<DATA_INPUT_URN, EmptyMap, [out |-> "side"], EmptyMap>>,
   <<DATA_INPUT_URN, EmptyMap, [out |-> "pc"], EmptyMap>>,
   <<DATA_OUTPUT_URN, [main |-> "side"], EmptyMap, EmptyMap>>,
   <<PAR_DO_URN, [main |-> "pc", s1 |-> "side"], EmptyMap,
     [s1 |-> ITERABLE_URN]>>,
   <<PAR_DO_URN, [s1 |-> "side", s2 |-> "side"], EmptyMap,
     [s1 |-> ITERABLE_URN, s2 |-> MULTIMAP_URN]>>,
   <<PAR_DO_URN, [s1 |-> "pc"], [out |-> "side"], [s1 |-> MULTIMAP_URN]>>}

\* the pipeline of transforms placed so, each with inputs, outputs and
\* side inputs
SideInputPipeline(a) ==
  StagesOf([i \in DOMAIN a |->
              [stage |-> a[i][1],
               transform |-> PTransform(UniqueName(i), a[i][2][1], "",
                                        a[i][2][2], a[i][2][3],
                                        a[i][2][4])]])

\* __init__, lines 686-687
EC_BuildDataSideInputsMap(stgs) ==
  /\ ix_op = "none"
  /\ ix_stages' = stgs
  /\ side_input_descriptors_by_stage' = BuildDataSideInputsMap(stgs)
  /\ ix_op' = "_build_data_side_inputs_map"
  /\ UNCHANGED <<input_transform_to_buffer_id,
                 pcollection_to_producer_transform,
                 buffer_id_to_consumer_pairs>>
  /\ UNCHANGED <<lbvars, gbvars, kqvars, wkvars, suvars, wsvars, rtvars>>

----------------------------------------------------------------------------
(* The worker status handler (worker_status.py 159-241).  __init__ starts  *)
(* the thread running _serve; each WorkerStatus call of the stub is a      *)
(* stream whose requests _serve iterates and whose responses the channel   *)
(* takes from the generator _get_responses(), in a thread of its own; the  *)
(* runner at the other end may end a stream at any time.                   *)

\* largest number of requests and of streams
MaxRequests == 2
MaxStreams == 2

\* the id the runner gives its n-th request
RequestId(n) == <<"request", n>>

\* an item of self._responses: a WorkerStatusResponse with its id and the
\* field that is set, or the sentinel; n counts the puts
Item(id, kind, n) == [id |-> id, kind |-> kind, n |-> n]

DONE(n) == Item(<<>>, "DONE", n)

NoItem == Item(<<>>, "none", 0)

\* a stream: whether it is open, and where its generator is
Stream(open, gen, item) == [open |-> open, gen |-> gen, item |-> item]

\* faulty variant: no except clause
Responses_Unprotected(id, raised) ==
  IF raised THEN <<>> ELSE <<[id |-> id, kind |-> "status_info"]>>

\* lines 212-222: what the body of the for loop puts for a request, when
\* generate_status_response raised and when it returned
Responses(id, raised) ==
  <<[id |-> id, kind |-> IF raised THEN "error" ELSE "status_info"]>>

\* self._responses.put of each of the items
Put(queue, kinds, n) ==
  queue \o [i \in 1..Len(kinds) |-> Item(kinds[i].id, kinds[i].kind, n + i)]

\* line 210: the test of the while loop, and line 211 when it holds: a new
\* stream with a new generator, which the channel starts at once
SV_While ==
  /\ serve_pc = "while"
  /\ IF alive
     THEN /\ Len(status_streams) < MaxStreams
          /\ status_streams'
               = Append(status_streams, Stream(TRUE, "get", NoItem))
          /\ serve_pc' = "for"
     ELSE /\ serve_pc' = "returned"
          /\ UNCHANGED status_streams
  /\ UNCHANGED <<alive, responses, requests, enqueued, sent, nclose>>
  /\ UNCHANGED <<lbvars, gbvars, kqvars, ecvars, llvars>>

\* lines 211-222: the stream yields a request and the body of the loop runs
SV_Request(id, raised) ==
  /\ serve_pc = "for"
  /\ status_streams[Len(status_streams)].open
  /\ requests' = Append(requests, [id |-> id, raised |-> raised,
                                   stream |-> Len(status_streams)])
  /\ responses' = Put(responses, Responses(id, raised), Len(enqueued))
  /\ enqueued' = Put(enqueued, Responses(id, raised), Len(enqueued))
  /\ UNCHANGED <<alive, serve_pc, status_streams, sent, nclose>>
  /\ UNCHANGED <<lbvars, gbvars, kqvars, ecvars, llvars>>

\* the runner ends the stream that is open
SV_StreamEnded ==
  /\ status_streams # <<>>
  /\ status_streams[Len(status_streams)].open
  /\ status_streams'
       = [status_streams EXCEPT ![Len(status_streams)].open = FALSE]
  /\ UNCHANGED <<alive, responses, serve_pc, requests, enqueued, sent,
                 nclose>>
  /\ UNCHANGED <<lbvars, gbvars, kqvars, ecvars, llvars>>

\* line 211: the for loop ends with the stream
SV_ForEnds ==
  /\ serve_pc = "for"
  /\ ~status_streams[Len(status_streams)].open
  /\ serve_pc' = "while"
  /\ UNCHANGED <<alive, responses, status_streams, requests, enqueued, sent,
                 nclose>>
  /\ UNCHANGED <<lbvars, gbvars, kqvars, ecvars, llvars>>

\* line 203: self._responses.get() returns in the generator of stream s; a
\* thread blocked in get() takes an item whether or not its stream is open
SV_Get(s) ==
  /\ status_streams[s].gen = "get"
  /\ responses # <<>>
  /\ responses' = Tail(responses)
  /\ status_streams'
       = [status_streams EXCEPT
            ![s].gen = IF Head(responses).kind = "DONE"
                       THEN "sentinel" ELSE "yield",
            ![s].item = Head(responses)]
  /\ UNCHANGED <<alive, serve_pc, requests, enqueued, sent, nclose>>
  /\ UNCHANGED <<lbvars, gbvars, kqvars, ecvars, llvars>>

\* line 207: the generator yields the response; the channel sends it and
\* asks for the next one when the stream is open, and drops it and the
\* generator otherwise
SV_Yield(s) ==
  /\ status_streams[s].gen = "yield"
  /\ IF status_streams[s].open
     THEN /\ sent' = Append(sent, [stream |-> s,
                                   item |-> status_streams[s].item])
          /\ status_streams' = [status_streams EXCEPT ![s].gen = "get"]
     ELSE /\ UNCHANGED sent
          /\ status_streams' = [status_streams EXCEPT ![s].gen = "dropped"]
  /\ UNCHANGED <<alive, responses, serve_pc, requests, enqueued, nclose>>
  /\ UNCHANGED <<lbvars, gbvars, kqvars, ecvars, llvars>>

\* lines 204-206: the item is DONE
SV_Done(s) ==
  /\ status_streams[s].gen = "sentinel"
  /\ alive' = FALSE
  /\ status_streams' = [status_streams EXCEPT ![s].gen = "returned"]
  /\ UNCHANGED <<responses, serve_pc, requests, enqueued, sent, nclose>>
  /\ UNCHANGED <<lbvars, gbvars, kqvars, ecvars, llvars>>

\* close(), lines 240-241, called once; the queue is unbounded, so put does
\* not block
SV_Close ==
  /\ nclose = 0
  /\ nclose' = nclose + 1
  /\ responses' = Append(responses, DONE(Len(enqueued) + 1))
  /\ enqueued' = Append(enqueued, DONE(Len(enqueued) + 1))
  /\ UNCHANGED <<alive, serve_pc, status_streams, requests, sent>>
  /\ UNCHANGED <<lbvars, gbvars, kqvars, ecvars, llvars>>

----------------------------------------------------------------------------
(* The lull logger (worker_status.py 243-297): the thread started by       *)
(* __init__ sleeps two minutes and then polls the active bundles.  Times   *)
(* are in seconds here; the source holds the timeout and the time since    *)
(* the last transition in nanoseconds and compares the timeout, divided by *)
(* 1e9, with time.time().                                                  *)

\* largest lull timeout a handler is made with, largest number of clock
\* ticks, and largest number of active bundles at a poll
MaxTimeout == 2
MaxTicks == 4
MaxBundles == 2

\* time.time() when the handler is made: the seconds since the epoch, more
\* than any timeout
Epoch == MaxTimeout + 1

\* what get_info() of the state sampler of a bundle gives, as far as the
\* logger reads it
SamplerInfo(instruction, time_since_transition) ==
  [instruction |-> instruction,
   time_since_transition |-> time_since_transition]

\* the active bundles a poll can find: each did a transition just now, or
\* exactly the timeout ago, or longer ago
ActiveBundles(timeout) ==
  UNION {[1..n -> {0, timeout, timeout + 1}] : n \in 0..MaxBundles}

\* what the logger keeps and does: _last_lull_logged_secs and the warnings
LullState(last, logged) == [last |-> last, logged |-> logged]

\* _passed_lull_timeout_since_last_log at time t: the state after it and
\* what it returns
PassedLullTimeoutSinceLastLog(st, t, timeout) ==
  IF t - st.last > timeout
  THEN <<LullState(t, st.logged), TRUE>>
  ELSE <<st, FALSE>>

\* _log_lull_sampler_info(sampler_info, instruction) at time t
LogLullSamplerInfo(st, info, t, timeout) ==
  LET passed == PassedLullTimeoutSinceLastLog(st, t, timeout) IN
  IF ~passed[2] THEN passed[1]
  ELSE IF info.time_since_transition # 0
            /\ info.time_since_transition > timeout
       THEN LullState(passed[1].last,
                      Append(passed[1].logged, info.instruction))
       ELSE passed[1]

RECURSIVE LogLulls(_, _, _, _)
\* lines 247-252: for instruction in list(active_bundle_processors.keys())
LogLulls(st, infos, t, timeout) ==
  IF infos = <<>> THEN st
  ELSE LogLulls(LogLullSamplerInfo(st, Head(infos), t, timeout),
                Tail(infos), t, timeout)

LullOp(name, bundles, logged, prior) ==
  [name |-> name, bundles |-> bundles, logged |-> logged, prior |-> prior]

\* __init__ with log_lull_timeout_ns = timeout
LL_Init(timeout) ==
  /\ lull_op.name = "none"
  /\ log_lull_timeout' = timeout
  /\ last_lull_logged_secs' = 0
  /\ now' = Epoch
  /\ warnings' = <<>>
  /\ lull_op' = LullOp("__init__", <<>>, <<>>, <<>>)
  /\ UNCHANGED <<lbvars, gbvars, kqvars, ecvars, svvars>>

\* a second passes
LL_Tick ==
  /\ lull_op.name # "none"
  /\ now < Epoch + MaxTicks
  /\ now' = now + 1
  /\ UNCHANGED <<last_lull_logged_secs, log_lull_timeout, warnings, lull_op>>
  /\ UNCHANGED <<lbvars, gbvars, kqvars, ecvars, svvars>>

\* one round of the loop of _log_lull_in_bundle_processor after the sleep,
\* finding the active bundles with these times since their last transition
LL_Poll(times) ==
  /\ lull_op.name # "none"
  /\ LET infos == [i \in 1..Len(times) |-> SamplerInfo(i, times[i])]
         st == LogLulls(LullState(last_lull_logged_secs, <<>>), infos, now,
                        log_lull_timeout)
     IN /\ last_lull_logged_secs' = st.last
        /\ warnings' = warnings \o [i \in 1..Len(st.logged) |->
                                      [time |-> now,
                                       instruction |-> st.logged[i]]]
        /\ lull_op' = LullOp("poll", infos, st.logged, warnings)
  /\ UNCHANGED <<now, log_lull_timeout>>
  /\ UNCHANGED <<lbvars, gbvars, kqvars, ecvars, svvars>>

----------------------------------------------------------------------------
(* Initial states and specifications                                       *)

InitLB ==
  /\ lb_inputs = <<>>
  /\ lb_grouped_output = None
  /\ lb_cleared = FALSE
  /\ lb_op = Result("init", TRUE, 0, <<>>)

InitGB ==
  /\ gb_table = <<>>
  /\ gb_grouped_output = None
  /\ gb_op = Result("init", TRUE, 0, <<>>)
  /\ gb_first = None

InitKQ ==
  /\ q = <<>>
  /\ keyed_elements = EmptyMap
  /\ elms = EmptyMap
  /\ bufs = EmptyMap
  /\ kq_op = KqResult("init", TRUE, "", 0, FALSE, NothingLogged)
  /\ log = [k \in QKeys |-> NothingLogged]
  /\ nenq = 0

\* no execution context has been constructed
InitEC ==
  /\ ec_constructed = FALSE
  /\ stages = <<>>
  /\ ready_inputs = <<>>
  /\ watermark_pending_inputs = <<>>
  /\ time_pending_inputs = <<>>
  /\ stage_managers = EmptyMap
  /\ last_uid = -1
  /\ ec_op = EcResult("none", TRUE)
  /\ pipeline = <<>>
  /\ nsetup = 0
  /\ windowing_strategies = <<>>
  /\ put_protos = <<>>
  /\ safe_windowing_strategies = EmptyMap
  /\ HANDLES = EmptyMap
  /\ nctx = 0
  /\ nhandles = 0
  /\ ws_op = WsResult("none", "", "")
  /\ calls = <<>>
  /\ collected = {}

InitMG ==
  /\ wf = EmptyMap
  /\ registered = <<>>
  /\ obtained = <<>>
  /\ mg_call = MergeCall("", NewWindowFn, "none", <<>>, <<>>)
  /\ trace = <<>>
  /\ data_out = <<>>
  /\ stream_done = FALSE
  /\ result = None
  /\ merges = <<>>

InitBF ==
  /\ pcoll_buffers = EmptyMap
  /\ timer_buffers = EmptyMap
  /\ nbuffers = 0
  /\ state_appends = <<>>
  /\ bf_op = BfResult("none", "", "", <<>>, FALSE, None,
                      [pcoll_buffers |-> EmptyMap,
                       timer_buffers |-> EmptyMap, nappends |-> 0])
  /\ ncalls = 0

InitIX ==
  /\ ix_stages = <<>>
  /\ input_transform_to_buffer_id = EmptyMap
  /\ pcollection_to_producer_transform = EmptyMap
  /\ buffer_id_to_consumer_pairs = EmptyMap
  /\ side_input_descriptors_by_stage = None
  /\ ix_op = "none"

InitSV ==
  /\ alive = TRUE
  /\ responses = <<>>
  /\ serve_pc = "while"
  /\ status_streams = <<>>
  /\ requests = <<>>
  /\ enqueued = <<>>
  /\ sent = <<>>
  /\ nclose = 0

InitLL ==
  /\ now = 0
  /\ last_lull_logged_secs = 0
  /\ log_lull_timeout = 0
  /\ warnings = <<>>
  /\ lull_op = LullOp("none", <<>>, <<>>, <<>>)

Init ==
  /\ InitLB /\ InitGB /\ InitKQ /\ InitEC /\ InitMG /\ InitBF /\ InitIX
  /\ InitSV /\ InitLL

NextList ==
  \/ \E element \in Records : LB_Append(element)
  \/ \E extra \in ExtraBuffers : LB_Extend(extra)
  \/ \E n \in 1..MaxN : LB_Partition(n)
  \/ \E n \in 1..MaxN : LB_PartitionFails(n)
  \/ LB_Iter
  \/ LB_Clear
  \/ LB_Reset

SpecList == Init /\ [][NextList]_vars

NextGroup ==
  \/ \E elements_data \in Chunks : GB_Append(elements_data)
  \/ \E input_buffer \in OtherBuffers : GB_Extend(input_buffer)
  \/ \E n \in 1..MaxN : GB_Partition(n)
  \/ GB_Iter
  \/ GB_Clear
  \/ GB_Reset

SpecGroup == Init /\ [][NextGroup]_vars

\* the GroupingBuffer with coders that may raise during partition
NextGroupFailing ==
  \/ \E elements_data \in Chunks : GB_Append(elements_data)
  \/ \E input_buffer \in OtherBuffers : GB_Extend(input_buffer)
  \/ \E n \in 1..MaxN : GB_Partition(n)
  \/ \E n \in 1..MaxN : GB_PartitionFails(n)
  \/ GB_Iter
  \/ GB_Clear
  \/ GB_Reset

SpecGroupFailing == Init /\ [][NextGroupFailing]_vars

NextQueue ==
  \/ \E key \in QKeys, input \in DataInputs : KQ_Enque(key, input)
  \/ KQ_Deque

SpecQueue == Init /\ [][NextQueue]_vars

NextSetup ==
  \/ ~ec_constructed /\ \E new_stages \in Pipelines :
                           EC_Init(new_stages, <<>>)
  \/ EC_Setup
  \/ \E k \in 1..Len(stages) : EC_BundleManagerFor(k, None)

SpecSetup == Init /\ [][NextSetup]_vars

NextWindowing ==
  \/ ~ec_constructed /\ ~InitRaised
       /\ \E strategies \in WindowingStrategies : EC_Init(<<>>, strategies)
  \/ \E id \in StrategyIds : EC_SafeWindowingStrategy(id)
  \/ \E k \in 1..nhandles : FromRunnerApiParameter(Uuid(k))
  \/ EC_Discard
  \/ \E ctx \in 1..nctx : GC_Collect(ctx)

SpecWindowing == Init /\ [][NextWindowing]_vars

\* the strategies of the context whose window fn merges in the worker
MergingStrategies ==
  {<<[id |-> "w", proto |-> WindowingStrategy(PICKLED_WINDOWFN, NEEDS_MERGE)]>>}

\* the merge calls on the window fn of one execution context
NextMerge ==
  \/ ~ec_constructed
       /\ \E strategies \in MergingStrategies : EC_Init(<<>>, strategies)
  \/ \E h \in DOMAIN HANDLES, windows \in MergeWindows, fails \in Failures :
       MergeStart(h, windows, fails)
  \/ \E e \in WorkerElements : WorkerSend(e)
  \/ WorkerEndStream
  \/ \E error \in WorkerErrors : WorkerRespond(error)
  \/ MergeRead
  \/ MergeAbort
  \/ MergeFinish

SpecMerge == Init /\ [][NextMerge]_vars

\* the same, with the thread that called merge running: a step of the call
\* that stays possible is taken; the worker may stop at any point
SpecMergeFair ==
  /\ SpecMerge
  /\ WF_vars(MergeRead) /\ WF_vars(MergeAbort) /\ WF_vars(MergeFinish)

\* the bundle managers of one execution context
NextManagers ==
  \/ ~ec_constructed
       /\ \E new_stages \in BundlePipelines : EC_Init(new_stages, <<>>)
  \/ EC_Setup
  \/ \E k \in 1..Len(stages), num_workers \in NumWorkers :
       EC_BundleManagerFor(k, num_workers)
  \/ \E name \in DOMAIN stage_managers, ok \in BOOLEAN :
       BM_ProcessBundleDescriptor(name, ok)
  \/ EC_Discard

SpecManagers == Init /\ [][NextManagers]_vars

\* the buffers of one execution context after setup(), the bundle
\* managers' get_buffer and the side inputs committed to state
NextBuffers ==
  \/ ~ec_constructed
       /\ \E new_stages \in BundlePipelines : EC_Init(new_stages, <<>>)
  \/ nsetup = 0 /\ EC_Setup
  \/ \E name \in DOMAIN stage_managers, buffer_id \in BufferIds,
         transform_id \in 1..MaxTransforms, ok \in BOOLEAN :
       BM_GetBuffer(name, buffer_id, transform_id, ok)
  \/ \E table \in {"pcoll_buffers", "timer_buffers"},
         buffer_id \in BufferIds, chunk \in BundleChunks :
       Buffer_Append(table, buffer_id, chunk)
  \/ \E data_side_input \in SideInputMaps :
       EC_CommitSideInputsToState(data_side_input)

SpecBuffers == Init /\ [][NextBuffers]_vars

\* the two index builders, each run once on a new context
NextIndex ==
  \/ ix_op = "none"
       /\ \E n \in 0..MaxIndexed :
            \E a \in Placings(n, IndexedSpecs) :
              EC_ComputePipelineDictionaries(IndexedPipeline(a))
  \/ ix_op = "none"
       /\ \E n \in 0..MaxIndexed :
            \E a \in Placings(n, SideInputSpecs) :
              EC_BuildDataSideInputsMap(SideInputPipeline(a))

SpecIndex == Init /\ [][NextIndex]_vars

\* the serving thread, the generators, the runner and close()
NextStatus ==
  \/ SV_While
  \/ Len(requests) < MaxRequests
       /\ \E raised \in BOOLEAN :
            SV_Request(RequestId(Len(requests) + 1), raised)
  \/ SV_StreamEnded
  \/ SV_ForEnds
  \/ \E s \in 1..Len(status_streams) : SV_Get(s)
  \/ \E s \in 1..Len(status_streams) : SV_Yield(s)
  \/ \E s \in 1..Len(status_streams) : SV_Done(s)
  \/ SV_Close

SpecStatus == Init /\ [][NextStatus]_vars

\* a handler is made, time passes, the lull logger polls
NextLull ==
  \/ lull_op.name = "none" /\ \E timeout \in 1..MaxTimeout : LL_Init(timeout)
  \/ LL_Tick
  \/ lull_op.name # "none"
       /\ \E times \in ActiveBundles(log_lull_timeout) : LL_Poll(times)

SpecLull == Init /\ [][NextLull]_vars

----------------------------------------------------------------------------
(* Properties of the KeyedQueue (checked under SpecQueue)                  *)

\* the keys of the tuples in the queue
QueuedKeys == {elms[q[i]].key : i \in 1..Len(q)}

\* the records a stored tuple holds, per PCollection and per timer family
Contents(elm) ==
  [data |-> [p \in DOMAIN elm.data |-> bufs[elm.data[p]].inputs],
   timers |-> [t \in DOMAIN elm.timers |-> bufs[elm.timers[t]].inputs]]

\* some name of the logged input got records from at least two enque calls
MergedTwice(held) ==
  \/ \E p \in DOMAIN held.data : Len(held.data[p]) >= 2
  \/ \E t \in DOMAIN held.timers : Len(held.timers[t]) >= 2

\* C1: in every reachable state of the queue no key occurs in two queued
\* tuples, the dedup index has exactly the keys of the queued tuples and maps
\* each to the tuple that is queued, and len(queue) is the number of distinct
\* pending keys.
C1_OneEntryPerKey ==
  /\ \A i, j \in 1..Len(q) : elms[q[i]].key = elms[q[j]].key => i = j
  /\ DOMAIN keyed_elements = QueuedKeys
  /\ \A i \in 1..Len(q) : keyed_elements[elms[q[i]].key] = q[i]
  /\ QueueLen = Cardinality(QueuedKeys)
  /\ QueueLen = Cardinality(DOMAIN keyed_elements)

\* C1 witness: two keys are pending and one of them was enqueued twice.
C1_Witness ==
  /\ QueueLen = 2
  /\ \E k \in DOMAIN keyed_elements : MergedTwice(log[k])

\* C2: the tuples leave in the order of their first insertion: read from the
\* end deque pops, the queue is ordered by the call that inserted each tuple
\* (which a merge into a pending key does not change, and which puts a newly
\* inserted key last), and the tuple a deque returns was inserted before every
\* tuple still queued.
C2_FifoByFirstInsertion ==
  /\ \A i, j \in 1..Len(q) : i < j => q[i] > q[j]
  /\ kq_op.name = "deque" /\ kq_op.ok => \A i \in 1..Len(q) : kq_op.ret < q[i]

\* C2 witness: deque returned a key that was enqueued again while another key
\* was queued behind it, and that other key is still queued.
C2_Witness ==
  /\ kq_op.name = "deque" /\ kq_op.ok
  /\ MergedTwice(kq_op.held)
  /\ QueueLen = 1
  /\ q[1] < nenq

----------------------------------------------------------------------------
(* Properties of the ListBuffer (checked under SpecList)                   *)

\* two sequences hold the same values the same number of times
SameBag(s, t) ==
  /\ Len(s) = Len(t)
  /\ \A i \in 1..Len(s) : Count(s, s[i]) = Count(t, s[i])

\* the encoded elements of a list of records, in order
ElementsOf(records) ==
  Concat([i \in 1..Len(records) |-> DecodeAll(records[i])])

\* C5: what partition(n) returns holds, over all shards, the records of the
\* buffer, each once, when it splits round robin, and the encoded elements of
\* the records, each once, when it redistributes.
C5_PartitionKeepsEverything ==
  lb_op.name = "partition" /\ lb_op.ok =>
    /\ SameBag(ElementsOf(Concat(lb_op.ret)), ElementsOf(lb_inputs))
    /\ TakesRoundRobin(lb_inputs, lb_op.n) =>
         SameBag(Concat(lb_op.ret), lb_inputs)

\* C5 witness: partition redistributed at least three elements of at least
\* two records.
C5_Witness ==
  /\ lb_op.name = "partition" /\ lb_op.ok
  /\ ~TakesRoundRobin(lb_inputs, lb_op.n)
  /\ Len(lb_inputs) >= 2
  /\ Len(ElementsOf(lb_inputs)) >= 3

\* the sharding computed for n from the records held
ComputedFor(inputs, n) ==
  IF TakesRoundRobin(inputs, n) THEN RoundRobin(inputs, n)
  ELSE Redistribute(inputs, n)

\* C6 as stated: every partition(n) returns exactly n shards, computed for
\* that n from the records held.
C6_AlwaysComputedForN ==
  lb_op.name = "partition" /\ lb_op.ok =>
    /\ Len(lb_op.ret) = lb_op.n
    /\ lb_op.ret = ComputedFor(lb_inputs, lb_op.n)

\* C6 amended: partition(n) returns exactly n shards computed for that n when
\* the buffer is empty or holds at least n records, or when no sharding is
\* memoized; with fewer than n records and a sharding memoized by an earlier
\* call it returns that sharding as it is.
C6_ComputedUnlessMemoized ==
  [][lb_op'.name = "partition" /\ lb_op'.ok =>
       IF TakesRoundRobin(lb_inputs, lb_op'.n) \/ ~Truthy(lb_grouped_output)
       THEN /\ Len(lb_op'.ret) = lb_op'.n
            /\ lb_op'.ret = ComputedFor(lb_inputs, lb_op'.n)
       ELSE /\ lb_op'.ret = lb_grouped_output[1]
            /\ lb_grouped_output' = lb_grouped_output]_vars

\* C6 witness: partition(n) returned a memoized sharding of another length.
C6_Witness ==
  /\ lb_op.name = "partition" /\ lb_op.ok
  /\ Len(lb_op.ret) # lb_op.n

\* C10: while the buffer is cleared it holds no record and no sharding, and
\* an append, extend, partition or iteration made on it raised.
C10_ClearedRejectsCalls ==
  lb_cleared =>
    /\ lb_inputs = <<>>
    /\ lb_grouped_output = None
    /\ lb_op.name \in {"append", "extend", "partition", "iter"} => ~lb_op.ok

\* C10 witness: a partition was called on a cleared buffer.
C10_Witness ==
  /\ lb_cleared
  /\ lb_op.name = "partition"
  /\ ~lb_op.ok

\* C12: a reset that succeeds leaves the state of a freshly constructed
\* buffer (not cleared, no record, no memoized sharding); an append made
\* right after it succeeds and leaves exactly the appended record; every
\* append that succeeds adds its record at the end, and every iteration
\* that succeeds yields the records held, in order.
C12_ResetGivesFreshBuffer ==
  [][/\ lb_op'.name = "reset" /\ lb_op'.ok =>
          /\ ~lb_cleared'
          /\ lb_inputs' = <<>>
          /\ lb_grouped_output' = None
     /\ lb_op.name = "reset" /\ lb_op.ok /\ lb_op'.name = "append" =>
          /\ lb_op'.ok
          /\ Len(lb_inputs') = 1
     /\ lb_op'.name = "append" /\ lb_op'.ok =>
          \E r \in Records : lb_inputs' = Append(lb_inputs, r)
     /\ lb_op'.name = "iter" /\ lb_op'.ok => lb_op'.ret = lb_inputs']_vars

\* C12 witness: a reset succeeded, so the buffer had been cleared.
C12_Witness ==
  /\ lb_op.name = "reset"
  /\ lb_op.ok
  /\ ~lb_cleared

\* C14 as stated: after a partition that read at least one record from a
\* buffer that is not cleared, an append or extend raises.
C14_WriteAfterPartitionFails ==
  [][/\ lb_op.name = "partition" /\ lb_op.ok
     /\ lb_inputs # <<>>
     /\ lb_op'.name \in {"append", "extend"}
     => ~lb_op'.ok]_vars

\* C15: a reset made on a buffer that is not cleared raises and changes
\* nothing; a reset made on a cleared buffer succeeds and changes the
\* cleared flag only.
C15_ResetOnlyWhenCleared ==
  [][lb_op'.name = "reset" =>
       /\ lb_op'.ok = lb_cleared
       /\ ~lb_cleared'
       /\ lb_inputs' = lb_inputs
       /\ lb_grouped_output' = lb_grouped_output]_vars

\* C15 witness: a reset raised on a buffer holding records and a memoized
\* sharding.
C15_Witness ==
  /\ lb_op.name = "reset"
  /\ ~lb_op.ok
  /\ lb_inputs # <<>>
  /\ Truthy(lb_grouped_output)

----------------------------------------------------------------------------
(* Properties of the GroupingBuffer (checked under SpecGroup)              *)

C8_AppendAfterPartitionFails ==
  gb_first # None =>
    /\ gb_grouped_output = gb_first
    /\ gb_op.name = "append" => ~gb_op.ok

\* C8 witness: an append was made after a partition that returned a group.
C8_Witness ==
  /\ gb_first # None
  /\ gb_op.name = "append"
  /\ \E i \in 1..Len(gb_first[1]) : gb_first[1][i] # <<<<>>>>

\* C9 as stated: once the buffer was partitioned an extend from another
\* GroupingBuffer raises, and the table never holds data that the cached
\* shards do not return.
C9_ExtendAfterPartitionFails ==
  gb_first # None =>
    /\ gb_op.name = "extend" => ~gb_op.ok
    /\ gb_table = <<>>

\* C11 as stated: after clear the buffer reports cleared and holds neither
\* table entries nor cached shards, and an append, extend, iteration or
\* partition made right after a clear raises.
C11_ClearDropsAndRejects ==
  [][/\ gb_op'.name = "clear" =>
          /\ gb_cleared
          /\ gb_table' = <<>>
          /\ gb_grouped_output' = None
     /\ gb_op.name = "clear"
          /\ gb_op'.name \in {"append", "extend", "extend_list",
                               "iter", "partition"}
          => ~gb_op'.ok]_vars

\* C16: an extend from a ListBuffer raises nothing and leaves the table,
\* the cached shards and the records of the source as they were.
C16_ExtendFromListIsNoOp ==
  [][gb_op'.name = "extend_list" =>
       /\ gb_op'.ok
       /\ gb_table' = gb_table
       /\ gb_grouped_output' = gb_grouped_output
       /\ gb_op'.ret[2] = gb_op'.ret[1]]_vars

\* C16 witness: an extend from a ListBuffer holding a record was made on a
\* buffer whose table holds a key.
C16_Witness ==
  /\ gb_op.name = "extend_list"
  /\ gb_op.ret[1] # <<>>
  /\ gb_table # <<>>

----------------------------------------------------------------------------
(* Properties of partition when a coder raises (the ListBuffer part is     *)
(* checked under SpecList, the GroupingBuffer part under SpecGroupFailing) *)

\* C13 as stated: a partition that raised left the records, the table and
\* the memoized sharding of the buffer as they were.
C13_FailedPartitionChangesNothing ==
  [][/\ lb_op'.name = "partition" /\ ~lb_op'.ok =>
          /\ lb_inputs' = lb_inputs
          /\ lb_grouped_output' = lb_grouped_output
     /\ gb_op'.name = "partition" /\ ~gb_op'.ok =>
          /\ gb_table' = gb_table
          /\ gb_grouped_output' = gb_grouped_output]_vars

----------------------------------------------------------------------------
(* Properties of setup (checked under SpecSetup)                           *)

\* the transforms of a stage, as passed to __init__, that are DATA_INPUTs
\* reading the impulse buffer
Impulses(stage) ==
  {i \in 1..Len(stage.transforms) :
     stage.transforms[i] = Transform(DATA_INPUT_URN, IMPULSE_BUFFER, FALSE)}

\* whether a stage, as passed to __init__, holds a ParDo with side inputs
ConsumesSideInput(stage) ==
  \E i \in 1..Len(stage.transforms) :
     stage.transforms[i] = Transform(PAR_DO_URN, "", TRUE)

\* the initial input of a stage: one buffer holding the encoded impulse
\* value per impulse DATA_INPUT, and no timers
InitialInput(stage) ==
  [data |-> [i \in Impulses(stage) |-> <<ENCODED_IMPULSE_VALUE>>],
   timers |-> EmptyMap]

\* the positions of a queue holding key
PendingAt(queue, key) == {i \in 1..Len(queue) : queue[i].key = key}

\* a queue holds the initial input of a stage under key, once
HoldsInitialInput(queue, key, stage) ==
  /\ Cardinality(PendingAt(queue, key)) = 1
  /\ \A i \in PendingAt(queue, key) :
       /\ queue[i].data = InitialInput(stage).data
       /\ queue[i].timers = InitialInput(stage).timers

\* C17: once setup has run, every stage without a ParDo that has side
\* inputs and with an impulse DATA_INPUT is pending in the ready queue under
\* its stage name, once, with one buffer holding the encoded impulse value
\* per impulse DATA_INPUT, and is not pending in the watermark-pending
\* queue.
C17_ReadyStagesAreReady ==
  nsetup >= 1 =>
    \A k \in 1..Len(pipeline) :
       ~ConsumesSideInput(pipeline[k]) /\ Impulses(pipeline[k]) # {} =>
         /\ HoldsInitialInput(ready_inputs, pipeline[k].name, pipeline[k])
         /\ PendingAt(watermark_pending_inputs,
                      <<pipeline[k].name, MAX_TIMESTAMP>>) = {}

\* C17 witness: setup has run on two stages without side inputs, one of
\* them with two impulse inputs, and both are pending in the ready queue.
C17_Witness ==
  /\ nsetup >= 1
  /\ Len(ready_inputs) = 2
  /\ \E i \in 1..2 : Cardinality(DOMAIN ready_inputs[i].data) = 2

\* C18: once setup has run, and whatever is called on the context after
\* it, every stage with a ParDo that has side inputs and with an impulse
\* DATA_INPUT is pending in the watermark-pending queue under (stage name,
\* MAX_TIMESTAMP), once, with its initial input, and is not pending in the
\* ready queue.
C18_SideInputStagesWait ==
  nsetup >= 1 =>
    \A k \in 1..Len(pipeline) :
       ConsumesSideInput(pipeline[k]) /\ Impulses(pipeline[k]) # {} =>
         /\ HoldsInitialInput(watermark_pending_inputs,
                              <<pipeline[k].name, MAX_TIMESTAMP>>,
                              pipeline[k])
         /\ PendingAt(ready_inputs, pipeline[k].name) = {}

\* C18 witness: stage A went to the ready queue and stage B, which has side
\* inputs, to the watermark-pending queue, and they are still there after a
\* second setup and a bundle_manager_for call.
C18_Witness ==
  /\ nsetup = 2
  /\ ec_op.name = "bundle_manager_for"
  /\ Len(ready_inputs) = 1
  /\ Len(watermark_pending_inputs) = 1
  /\ watermark_pending_inputs[1].key = <<"B", MAX_TIMESTAMP>>

----------------------------------------------------------------------------
(* Properties of the safe windowing strategies (checked under              *)
(* SpecWindowing)                                                          *)

\* the calls of the last __init__ made for a strategy of a safe window fn
SafeCalls ==
  {i \in 1..Len(calls) :
     calls[i].proto.urn \in {GLOBAL_WINDOWS_URN, SESSION_WINDOWS_URN}}

\* those made for a strategy of another window fn, of a merge status
UnsafeCalls(merge_status) ==
  {i \in 1..Len(calls) :
     /\ calls[i].proto.urn = PICKLED_WINDOWFN
     /\ calls[i].proto.merge_status = merge_status}

\* the handles the table holds for a context
HandlesOf(ctx) == {h \in DOMAIN HANDLES : HANDLES[h].ctx = ctx}

\* C19: a call of _make_safe_windowing_strategy for a strategy whose window
\* fn URN is in SAFE_WINDOW_FNS returns the id it was given, puts no
\* strategy and registers no window fn; the context maps the id to itself,
\* and it put one strategy per strategy of another window fn, and holds one
\* handle per such strategy that needs merging.
C19_SafeStrategyUnchanged ==
  /\ \A i \in SafeCalls :
       /\ calls[i].ok
       /\ calls[i].ret = calls[i].id
       /\ calls[i].put = <<>>
       /\ calls[i].handles = {}
       /\ ec_constructed => safe_windowing_strategies[calls[i].id] = calls[i].id
  /\ ec_constructed =>
       /\ Len(put_protos) = Len(calls) - Cardinality(SafeCalls)
       /\ Cardinality(HandlesOf(nctx)) = Cardinality(UnsafeCalls(NEEDS_MERGE))

\* C19 witness: a context was constructed from a safe strategy that needs
\* merging, held under the id w, and a pickled one that needs merging.
C19_Witness ==
  /\ ec_constructed
  /\ \E i \in SafeCalls :
       calls[i].id = "w" /\ calls[i].proto.merge_status = NEEDS_MERGE
  /\ UnsafeCalls(NEEDS_MERGE) # {}

\* C20: in a constructed context, every strategy of a window fn outside
\* SAFE_WINDOW_FNS that is non-merging or needs merging was put under a
\* safe id that is no id of the pipeline's windowing strategies and no safe
\* id of another strategy; the strategy put has the URN of the non-merging
\* adapter and the window coder id as payload, or the URN of the merging
\* adapter and as payload a handle under which the table holds a window fn
\* of this context made from the original strategy; the context maps the
\* id to the safe id, and every lookup of the id returns it.
C20_UnsafeStrategyRewritten ==
  ec_constructed =>
    /\ \A i \in UnsafeCalls(NON_MERGING) \cup UnsafeCalls(NEEDS_MERGE) :
         /\ calls[i].ok
         /\ calls[i].ret \notin IdsOf(windowing_strategies)
         /\ \A j \in 1..Len(calls) : j # i => calls[j].ret # calls[i].ret
         /\ safe_windowing_strategies[calls[i].id] = calls[i].ret
         /\ Len(calls[i].put) = 1
         /\ \E k \in 1..Len(put_protos) : put_protos[k] = calls[i].put[1]
         /\ calls[i].put[1].id = calls[i].ret
         /\ calls[i].put[1].proto.merge_status = calls[i].proto.merge_status
         /\ IF calls[i].proto.merge_status = NON_MERGING
            THEN /\ calls[i].put[1].proto.urn = "internal-generic-non-merging"
                 /\ calls[i].put[1].proto.payload =
                      calls[i].proto.window_coder_id
                 /\ calls[i].handles = {}
            ELSE /\ calls[i].put[1].proto.urn = "internal-generic-merging"
                 /\ calls[i].handles = {calls[i].put[1].proto.payload}
                 /\ calls[i].handles \subseteq HandlesOf(nctx)
                 /\ \A h \in calls[i].handles :
                      HANDLES[h].proto = calls[i].proto
    /\ ws_op.name = "lookup" =>
         /\ ws_op.ret = safe_windowing_strategies[ws_op.id]
         /\ \E i \in 1..Len(calls) :
              calls[i].id = ws_op.id /\ calls[i].ret = ws_op.ret

\* C20 witness: the strategy held under w needs merging and was put under
\* w_safe__, the ids w_safe and w_safe_ being taken, and a lookup of w
\* returned w_safe__.
C20_Witness ==
  /\ ec_constructed
  /\ ws_op = WsResult("lookup", "w", "w_safe__")
  /\ \E i \in UnsafeCalls(NEEDS_MERGE) :
       calls[i].id = "w" /\ calls[i].handles # {}

\* the calls of the last __init__ that raised
FailedCalls == {i \in 1..Len(calls) : ~calls[i].ok}

\* C21: a call of _make_safe_windowing_strategy for a strategy of a window
\* fn outside SAFE_WINDOW_FNS whose merge status is neither NON_MERGING nor
\* NEEDS_MERGE raises: it puts no strategy and registers no window fn, it
\* is the last call __init__ makes, __init__ raises and no context is
\* constructed; the table holds for that context no handle but those the
\* calls before it registered.
C21_UnsupportedMergeStatusRaises ==
  /\ \A i \in UnsafeCalls(ALREADY_MERGED) :
       /\ ~calls[i].ok
       /\ calls[i].put = <<>>
       /\ calls[i].handles = {}
       /\ i = Len(calls)
       /\ ~ec_constructed
       /\ ec_op = EcResult("__init__", FALSE)
       /\ HandlesOf(nctx) \subseteq
            UNION {calls[j].handles : j \in 1..(i - 1)}
  /\ FailedCalls \subseteq UnsafeCalls(ALREADY_MERGED)

\* C21 witness: __init__ raised on the third strategy, after it had put two
\* safe strategies and registered a window fn.
C21_Witness ==
  /\ Len(calls) = 3
  /\ ~calls[3].ok
  /\ \E j \in 1..2 : calls[j].handles # {}
  /\ \A j \in 1..2 : calls[j].put # <<>>
  /\ HandlesOf(nctx) # {}

\* the number of the uuid a handle id stands for
UuidIndex(h) == CHOOSE k \in 0..nhandles : h = Uuid(k)

\* the contexts that are no longer referenced
Unreachable == (1..nctx) \ Alive

\* C22: every merging window fn is in the handle table under a freshly
\* generated id of its own (the entry under an id is the window fn made
\* with that id, a later context's ids are later uuids, the window fns of
\* one context have one id each); while the context is referenced, each of
\* its window fns is in the table under its id, for its own strategy, and a
\* lookup by an id returns the window fn made with it; the table holds no
\* entry of a collected context, a failing lookup is one for a window fn of
\* an unreachable context, and an entry refers to its context weakly only:
\* a context with entries can be dropped and collected.
C22_HandleTableFollowsContexts ==
  /\ \A h \in DOMAIN HANDLES :
       /\ \E k \in 1..nhandles : h = Uuid(k)
       /\ HANDLES[h].handle_id = h
       /\ HANDLES[h].ctx \in (1..nctx) \ collected
       /\ \A g \in DOMAIN HANDLES :
            HANDLES[g].ctx < HANDLES[h].ctx => UuidIndex(g) < UuidIndex(h)
  /\ collected \subseteq Unreachable
  /\ \A i, j \in 1..Len(calls) :
       /\ Cardinality(calls[i].handles) =
            (IF i \in UnsafeCalls(NEEDS_MERGE) THEN 1 ELSE 0)
       /\ i # j => calls[i].handles \cap calls[j].handles = {}
  /\ ec_constructed =>
       /\ HandlesOf(nctx) = UNION {calls[i].handles : i \in 1..Len(calls)}
       /\ \A i \in 1..Len(calls) : \A h \in calls[i].handles :
            /\ h \in DOMAIN HANDLES
            /\ HANDLES[h] =
                 [handle_id |-> h, ctx |-> nctx, proto |-> calls[i].proto]
  /\ ws_op.name = "from_runner_api_parameter" => ws_op.ret = ws_op.id
  /\ ws_op.name = "KeyError" =>
       /\ ec_constructed
       /\ ws_op.id \notin HandlesOf(nctx)
       /\ \E k \in 1..nhandles : ws_op.id = Uuid(k)
  /\ \A ctx \in Unreachable \ collected : ENABLED GC_Collect(ctx)

\* a second context holds two merging window fns and looked one of them up,
\* while the window fns of the first context, since collected, are gone
C22_Witness ==
  /\ ec_constructed /\ nctx = 2 /\ collected = {1}
  /\ nhandles = 3 /\ Cardinality(HandlesOf(2)) = 2
  /\ ws_op = WsResult("from_runner_api_parameter", Uuid(3), Uuid(3))

----------------------------------------------------------------------------
(* Properties of GenericMergingWindowFn.merge (checked under SpecMerge)    *)

\* the elements of the worker the merge call has read
OutputsRead ==
  SubSeq(mg_call.outputs, 1, Len(mg_call.outputs) - Len(data_out))

RECURSIVE PairsOf(_)
\* the pairs of a sequence of elements, in order
PairsOf(outputs) ==
  IF outputs = <<>> THEN <<>>
  ELSE Head(outputs).pairs \o PairsOf(Tail(outputs))

\* the positions in the trace of the events of a kind
EventsOf(ev) == {k \in 1..Len(trace) : trace[k].ev = ev}

\* C23: a merge call that gets to send does, in this order, exactly one
\* write of its windows, the close of the stream, the push of the
\* instruction and the read of the output, and then one merge callback per
\* pair of the elements it has read, in their order (all pairs of the
\* output when it returns); every one of these carries the instruction id
\* of the call, which no earlier call had; a call that raised before it
\* sent did nothing of this.
C23_MergeProtocolOrder ==
  /\ mg_call.id = <<>> => trace = <<>>
  /\ mg_call.id # <<>> =>
       /\ Len(trace) >= 4
       /\ trace[1].ev = "write" /\ trace[1].windows = mg_call.windows
       /\ trace[2].ev = "close"
       /\ trace[3].ev = "push"
       /\ trace[3].descriptor_id = FieldsOf(mg_call.h).bundle_processor_id
       /\ trace[4].ev = "input_elements"
       /\ EventsOf("write") = {1} /\ EventsOf("close") = {2}
       /\ EventsOf("push") = {3} /\ EventsOf("input_elements") = {4}
       /\ EventsOf("merge") = 5..Len(trace)
       /\ \A k \in 1..Len(trace) : trace[k].id = mg_call.id
       /\ [k \in 1..(Len(trace) - 4) |-> trace[k + 4].pair] =
            PairsOf(OutputsRead)
       /\ mg_call.status = "returned" => OutputsRead = mg_call.outputs
       /\ \A i \in 1..Len(merges) :
            merges[i].id = mg_call.id =>
              i = Len(merges) /\ mg_call.status # "reading"

\* a merge call returned after it made three callbacks for the two elements
\* the worker sent
C23_Witness ==
  /\ mg_call.status = "returned"
  /\ Len(mg_call.outputs) = 2 /\ Len(trace) = 7
  /\ Len(merges) = 2

\* the positions of a value in a sequence
PositionsOf(seq, x) == {k \in 1..Len(seq) : seq[k] = x}

\* the descriptor ids registered for a window fn
RegisteredFor(h) == {k \in 1..Len(registered) : registered[k][1] = h}

\* C24: over the merge calls on a window fn, get_worker_handlers returns a
\* worker handler to it at most once and a descriptor is registered for it
\* at most once, neither before its first merge call; the descriptor
\* registered is the one whose id the window fn keeps; a merge call on a
\* window fn that has a worker handler leaves that handler and the
\* descriptor id as they were, and the instruction it pushes names that
\* descriptor id.
C24_HandleAndDescriptorMadeOnce ==
  /\ \A h \in DOMAIN HANDLES :
       /\ Cardinality(PositionsOf(obtained, h)) <= 1
       /\ Cardinality(RegisteredFor(h)) <= 1
       /\ (FieldsOf(h).worker_handler # None) = (PositionsOf(obtained, h) # {})
       /\ \A k \in RegisteredFor(h) :
            registered[k] = FieldsOf(h).bundle_processor_id
  /\ (merges = <<>> /\ mg_call.status = "none") =>
       (wf = EmptyMap /\ obtained = <<>> /\ registered = <<>>)
  /\ \A i \in 1..Len(merges) :
       merges[i].before.worker_handler # None =>
         /\ merges[i].after.worker_handler = merges[i].before.worker_handler
         /\ merges[i].after.bundle_processor_id =
              merges[i].before.bundle_processor_id
         /\ merges[i].after.coder_impls = merges[i].before.coder_impls
  /\ \A i \in 1..(Len(merges) - 1) :
       merges[i + 1].h = merges[i].h => merges[i + 1].before = merges[i].after
  /\ mg_call.status = "reading" =>
       /\ mg_call.before.worker_handler # None =>
            /\ FieldsOf(mg_call.h).worker_handler =
                 mg_call.before.worker_handler
            /\ FieldsOf(mg_call.h).bundle_processor_id =
                 mg_call.before.bundle_processor_id
       /\ trace[3].descriptor_id = FieldsOf(mg_call.h).bundle_processor_id

\* three merge calls returned, the descriptor was registered in the first
C24_Witness ==
  /\ Len(merges) = 3
  /\ \A i \in 1..3 : merges[i].status = "returned"
  /\ Len(registered) = 1 /\ Len(obtained) = 1
  /\ merges[1].before.worker_handler = None
  /\ merges[3].after.counter = UidsOfDescriptor + 3

\* C25: a merge call to whose instruction the worker responded with an error
\* raises, and a call that returns had a response without error; the call
\* with the error leaves the window fn as a call without error leaves it
\* (worker handler, descriptor id and coder impls as before the call, or as
\* made by the call when it was the first to get that far), registers
\* nothing more, leaves the entry of the handle table in place, and another
\* merge call can start after it.
C25_WorkerErrorRaisesInThatCallOnly ==
  /\ \A i \in 1..Len(merges) :
       /\ merges[i].error # "" =>
            /\ merges[i].status = "raised"
            /\ merges[i].after =
                 [WorkerHandle(merges[i].before, merges[i].h, "none").f
                    EXCEPT !.counter = @ + 1]
            /\ merges[i].h \in DOMAIN HANDLES
            /\ HANDLES[merges[i].h].handle_id = merges[i].h
            /\ Cardinality(RegisteredFor(merges[i].h)) <= 1
       /\ merges[i].status = "returned" => merges[i].error = ""
  /\ mg_call.status = "returned" => (result = Some("") /\ mg_call.error = "")
  /\ (mg_call.status = "raised" /\ mg_call.error # ""
        /\ Len(merges) < MaxMerges) =>
       /\ FieldsOf(mg_call.h) = merges[Len(merges)].after
       /\ \A windows \in MergeWindows :
            ENABLED MergeStart(mg_call.h, windows, "none")

\* the worker responded with an error to the second merge call, which
\* raised; the third call, on the same window fn, made callbacks and returned
C25_Witness ==
  /\ Len(merges) = 3
  /\ merges[1].status = "returned"
  /\ merges[2].error # "" /\ merges[2].status = "raised"
  /\ merges[3].status = "returned" /\ merges[3].h = merges[2].h
  /\ merges[3].before = merges[2].after
  /\ Len(trace) > 4

----------------------------------------------------------------------------
(* Properties of the buffers and the side inputs (checked under            *)
(* SpecBuffers)                                                            *)

\* the state writes of the last call
NewAppends ==
  SubSeq(state_appends, bf_op.before.nappends + 1, Len(state_appends))

\* the windowed values the buffer of a side input held when the last call
\* began
BufferedValues(side_input) ==
  IF side_input.buffer_id \in DOMAIN bf_op.before.pcoll_buffers
  THEN Flattened(bf_op.before.pcoll_buffers[side_input.buffer_id].contents)
  ELSE <<>>


\* the windows in which a side input had values
WindowsWithValues(side_input) ==
  UNION {Range(wv.windows) : wv \in Range(BufferedValues(side_input))}

RECURSIVE ValuesInWindow(_, _)
\* the values of the windowed values that are in a window, in order
ValuesInWindow(windowed_values, window) ==
  IF windowed_values = <<>> THEN <<>>
  ELSE (IF window \in Range(Head(windowed_values).windows)
        THEN <<Head(windowed_values).value>> ELSE <<>>)
         \o ValuesInWindow(Tail(windowed_values), window)

\* the positions of the state writes of the last call for a side input
WritesFor(side_input) ==
  {i \in 1..Len(NewAppends) :
     /\ NewAppends[i].state_key.transform_id = side_input.transform_id
     /\ NewAppends[i].state_key.side_input_id = side_input.tag}

\* the side inputs the last call got to: all of them, or those up to the
\* first one of an unknown access pattern
Reached ==
  {k \in 1..Len(bf_op.side_inputs) :
     \A j \in 1..(k - 1) : KnownAccessPattern(bf_op.side_inputs[j].urn)}

\* C26: a call of commit_side_inputs_to_state makes, for each side input of
\* the iterable pattern it gets to, exactly one state write per window in
\* which the buffer holds values, under the iterable key of the consuming
\* transform, the tag and that window, whose data are the encoded values
\* of that window one after the other in the order of the buffer; a value
\* that is in several windows is in the data of each.
C26_IterableSideInputPerWindow ==
  bf_op.name = "commit_side_inputs_to_state" =>
    \A k \in Reached :
      LET side_input == bf_op.side_inputs[k]
          values == BufferedValues(side_input)
      IN  side_input.urn = ITERABLE_URN =>
            /\ Cardinality(WritesFor(side_input)) =
                 Cardinality(WindowsWithValues(side_input))
            /\ \A i \in WritesFor(side_input) :
                 NewAppends[i].state_key.type = "iterable_side_input"
            /\ \A window \in WindowsWithValues(side_input) :
                 \E i \in WritesFor(side_input) :
                   /\ NewAppends[i].state_key =
                        StateKey("iterable_side_input", side_input,
                                 EncodeWindow(window), <<>>)
                   /\ NewAppends[i].data =
                        EncodeAll(ValuesInWindow(values, window))
            /\ \A n \in 1..Len(values) :
                 \A window \in Range(values[n].windows) :
                   \E i \in WritesFor(side_input) :
                     /\ NewAppends[i].state_key.window = EncodeWindow(window)
                     /\ \E a, b \in 0..Len(NewAppends[i].data) :
                          SubSeq(NewAppends[i].data, a + 1, b) =
                            EncodeNested(values[n].value)

\* an iterable side input was committed whose buffer held three values in
\* two chunks, one of them in both windows
C26_Witness ==
  /\ bf_op.name = "commit_side_inputs_to_state" /\ ~bf_op.raised
  /\ \E k \in 1..Len(bf_op.side_inputs) :
       /\ bf_op.side_inputs[k].urn = ITERABLE_URN
       /\ Len(BufferedValues(bf_op.side_inputs[k])) = 3
       /\ Cardinality(WritesFor(bf_op.side_inputs[k])) = 2

\* the identity and the class of the buffers of a table
Shape(table) ==
  [id \in DOMAIN table |-> [type |-> table[id].type, ref |-> table[id].ref]]

\* C27: a call of commit_side_inputs_to_state raises exactly when one of its
\* side inputs has an access pattern that is neither the iterable nor the
\* multimap one; for the first such side input the call writes nothing to
\* the state and creates no buffer, and it gets to no side input after it.
C27_UnknownAccessPatternFails ==
  bf_op.name = "commit_side_inputs_to_state" =>
    LET unknown == {k \in 1..Len(bf_op.side_inputs) :
                      bf_op.side_inputs[k].urn \notin
                        {ITERABLE_URN, MULTIMAP_URN}}
    IN  /\ bf_op.raised <=> unknown # {}
        /\ \A k \in unknown :
             LET side_input == bf_op.side_inputs[k]
             IN  /\ WritesFor(side_input) = {}
                 /\ side_input.buffer_id \notin DOMAIN bf_op.before.pcoll_buffers
                      => side_input.buffer_id \notin DOMAIN pcoll_buffers
        /\ \A i \in 1..Len(NewAppends) :
             \E k \in 1..Len(bf_op.side_inputs) :
               /\ i \in WritesFor(bf_op.side_inputs[k])
               /\ \A j \in 1..k : j \notin unknown
        /\ Shape(timer_buffers) = Shape(bf_op.before.timer_buffers)

\* a call failed on its second side input, of an unknown access pattern and
\* without a buffer, after it had written the state of its first one
C27_Witness ==
  /\ bf_op.name = "commit_side_inputs_to_state" /\ bf_op.raised
  /\ Len(bf_op.side_inputs) = 2
  /\ bf_op.side_inputs[2].urn = OTHER_SIDE_INPUT_URN
  /\ bf_op.side_inputs[2].buffer_id \notin DOMAIN pcoll_buffers
  /\ NewAppends # <<>>

\* the kind of the buffer id of the last call
KindOf(buffer_id) == SplitBufferId(buffer_id)[1]

\* C28: a get_buffer that returns has resolved the buffer by the kind of
\* its id: for materialize a ListBuffer of the table of the PCollections,
\* for timers a ListBuffer of the table of the timer families, for group a
\* GroupingBuffer of the table of the PCollections, the other table being
\* as it was; for any other kind get_buffer raises the error of an
\* unsupported buffer, and a get_buffer that raises leaves both tables as
\* they were.
C28_GetBufferResolvesByKind ==
  bf_op.name = "get_buffer" =>
    LET kind == KindOf(bf_op.buffer_id)
        before == bf_op.before
    IN  /\ kind \notin {"materialize", "timers", "group"} => bf_op.raised
        /\ bf_op.raised =>
             /\ bf_op.ret = None
             /\ Shape(pcoll_buffers) = Shape(before.pcoll_buffers)
             /\ Shape(timer_buffers) = Shape(before.timer_buffers)
        /\ ~bf_op.raised =>
             /\ bf_op.ret # None
             /\ bf_op.ret[1].type =
                  (IF kind = "group" THEN "GroupingBuffer" ELSE "ListBuffer")
             /\ IF kind = "timers"
                THEN /\ bf_op.buffer_id \in DOMAIN timer_buffers
                     /\ timer_buffers[bf_op.buffer_id].ref = bf_op.ret[1].ref
                     /\ Shape(pcoll_buffers) = Shape(before.pcoll_buffers)
                ELSE /\ bf_op.buffer_id \in DOMAIN pcoll_buffers
                     /\ pcoll_buffers[bf_op.buffer_id].ref = bf_op.ret[1].ref
                     /\ Shape(timer_buffers) = Shape(before.timer_buffers)

\* get_buffer has returned a ListBuffer of the table of the timer families
\* for a timers id while the table of the PCollections holds the ListBuffer
\* of a materialize id
C28_Witness ==
  /\ bf_op.name = "get_buffer" /\ ~bf_op.raised
  /\ KindOf(bf_op.buffer_id) = "timers"
  /\ bf_op.ret[1].type = "ListBuffer"
  /\ bf_op.buffer_id \in DOMAIN timer_buffers
  /\ bf_op.buffer_id \notin DOMAIN pcoll_buffers
  /\ \E id \in DOMAIN pcoll_buffers :
       KindOf(id) = "materialize" /\ pcoll_buffers[id].type = "ListBuffer"

\* the identities of the buffers of two tables
RefsOf(pcolls, timers) ==
  {pcolls[id].ref : id \in DOMAIN pcolls}
    \cup {timers[id].ref : id \in DOMAIN timers}

\* a table holds the buffers of an earlier table, each with what it had
\* then and what was appended to it since
Keeps(table, earlier) ==
  \A id \in DOMAIN earlier :
    /\ id \in DOMAIN table
    /\ table[id].ref = earlier[id].ref
    /\ table[id].type = earlier[id].type
    /\ Len(earlier[id].contents) <= Len(table[id].contents)
    /\ SubSeq(table[id].contents, 1, Len(earlier[id].contents)) =
         earlier[id].contents

\* C29: the buffers are created lazily and persist.  A get_buffer for an id
\* that has no buffer creates an empty one, whichever stage's manager is
\* asked; a get_buffer for an id that has a buffer returns that buffer with
\* all that was appended to it; and every buffer ever constructed is still
\* the buffer of its id, so that no call of get_buffer or of
\* commit_side_inputs_to_state has replaced or recreated one.
C29_BuffersLazyAndPersistent ==
  LET before == bf_op.before
      table == IF KindOf(bf_op.buffer_id) = "timers"
               THEN before.timer_buffers ELSE before.pcoll_buffers
  IN  /\ RefsOf(pcoll_buffers, timer_buffers) = 1..nbuffers
      /\ Cardinality(DOMAIN pcoll_buffers)
           + Cardinality(DOMAIN timer_buffers) = nbuffers
      /\ Keeps(pcoll_buffers, before.pcoll_buffers)
      /\ Keeps(timer_buffers, before.timer_buffers)
      /\ bf_op.name = "get_buffer" /\ ~bf_op.raised =>
           IF bf_op.buffer_id \in DOMAIN table
           THEN bf_op.ret[1] = table[bf_op.buffer_id]
           ELSE /\ bf_op.ret[1].contents = <<>>
                /\ bf_op.ret[1].made_by = bf_op.stage
                /\ bf_op.ret[1].ref \notin
                     RefsOf(before.pcoll_buffers, before.timer_buffers)

\* the manager of stage B was given, with the chunk appended to it, the
\* buffer that the manager of stage A had created
C29_Witness ==
  /\ bf_op.name = "get_buffer" /\ ~bf_op.raised
  /\ bf_op.stage = "B"
  /\ bf_op.ret[1].made_by = "A"
  /\ bf_op.ret[1].contents # <<>>
  /\ nbuffers = 1

----------------------------------------------------------------------------
(* Properties of the bundle managers (checked under SpecManagers)          *)

\* the managers of the context are the managers it had, unaltered but for
\* a descriptor built since, and the new ones carry the uids drawn since
ManagersKept ==
  /\ \A name \in DOMAIN stage_managers :
       /\ name \in DOMAIN stage_managers'
       /\ stage_managers'[name].bundle_uid = stage_managers[name].bundle_uid
       /\ stage_managers'[name].num_workers = stage_managers[name].num_workers
       /\ stage_managers[name].process_bundle_descriptor # None =>
            stage_managers'[name] = stage_managers[name]
  /\ \A name \in DOMAIN stage_managers' \ DOMAIN stage_managers :
       /\ stage_managers'[name].bundle_uid \in (last_uid + 1)..last_uid'
       /\ stage_managers'[name].process_bundle_descriptor = None

\* C30: a context makes at most one bundle manager for a stage name and
\* keeps it: every manager it ever made is still the manager of its stage,
\* with the uid and the number of workers it was made with, whatever
\* num_workers later calls of bundle_manager_for pass; the managers of
\* distinct stages carry distinct uids, which are the ids of their
\* descriptors; and a manager's descriptor is built once and then kept.
C30_OneManagerPerStage ==
  /\ [](ec_constructed =>
          /\ Cardinality(DOMAIN stage_managers) = last_uid + 1
          /\ \A name \in DOMAIN stage_managers :
               LET m == stage_managers[name]
               IN  /\ m.bundle_uid \in 0..last_uid
                   /\ m.built \in {0, 1}
                   /\ m.process_bundle_descriptor =
                        (IF m.built = 1 THEN Some(m.bundle_uid) ELSE None)
                   /\ \A other \in DOMAIN stage_managers \ {name} :
                        stage_managers[other].bundle_uid # m.bundle_uid)
  /\ [][ec_constructed /\ ec_constructed' => ManagersKept]_vars

\* after a call of bundle_manager_for the context has the managers of two
\* stages, one made with its own number of workers and one with the
\* number of workers of the context, the descriptor of one of them built
C30_Witness ==
  /\ ec_constructed
  /\ ec_op = EcResult("bundle_manager_for", TRUE)
  /\ last_uid = 1
  /\ \E a, b \in DOMAIN stage_managers :
       /\ stage_managers[a].num_workers = 2
       /\ stage_managers[a].built = 1
       /\ stage_managers[b].num_workers = ContextNumWorkers
       /\ stage_managers[b].bundle_uid # stage_managers[a].bundle_uid

----------------------------------------------------------------------------
(* Further properties of the KeyedQueue (checked under SpecQueue)          *)

\* the tuples that deque has handed out
HandedOut == DOMAIN elms \ Range(q)

\* the buffers a tuple holds
BufferRefs(elm) ==
  {elm.data[p] : p \in DOMAIN elm.data}
    \cup {elm.timers[t] : t \in DOMAIN elm.timers}

\* C33: deque takes the key out of the dedup index, which never names a
\* tuple that was handed out; so an enque of a key whose tuple was dequeued
\* puts a new tuple at the tail of the queue, and no step changes a tuple
\* that was handed out or the buffers it holds.
C33_EnqueAfterDequeIsNewEntry ==
  /\ [](\A k \in DOMAIN keyed_elements : keyed_elements[k] \notin HandedOut)
  /\ [][/\ \A ref \in HandedOut :
             /\ ref \notin Range(q')
             /\ elms'[ref] = elms[ref]
             /\ \A r \in BufferRefs(elms[ref]) : bufs'[r] = bufs[r]
        /\ \A key \in QKeys :
             (/\ kq_op'.name = "enque" /\ kq_op'.key = key /\ nenq' = nenq + 1
              /\ ~kq_op'.empty
              /\ key \notin DOMAIN keyed_elements)
               => /\ q' = <<nenq'>> \o q
                  /\ keyed_elements'[key] = nenq'
                  /\ nenq' \notin DOMAIN elms]_vars

\* a key whose tuple was dequeued was enqueued again, behind another key
\* that is still queued
C33_Witness ==
  /\ kq_op.name = "enque" /\ ~kq_op.empty
  /\ QueueLen = 2
  /\ q[1] = nenq
  /\ elms[q[1]].key = kq_op.key
  /\ \E ref \in HandedOut :
       /\ elms[ref].key = kq_op.key
       /\ \E r \in BufferRefs(elms[ref]) : bufs[r].inputs # <<>>

----------------------------------------------------------------------------
(* Further properties of the GroupingBuffer (checked under SpecGroup)      *)

\* the values a table holds for a key, none when the key is absent
ValsOf(table, key) ==
  IF IndexOf(table, key) = 0 THEN <<>> ELSE table[IndexOf(table, key)].vals

RECURSIVE ValuesFor(_, _)
\* the values of the pairs of a chunk that have a key, in order
ValuesFor(kvs, key) ==
  IF kvs = <<>> THEN <<>>
  ELSE (IF Head(kvs)[1] = key THEN <<Head(kvs)[2]>> ELSE <<>>)
         \o ValuesFor(Tail(kvs), key)

\* where the shards hold a group of a key: the shard and the place in it
GroupsOf(shards, key) ==
  {<<i, j>> \in (1..Len(shards)) \X (1..MaxTable + 1) :
     j <= Len(shards[i][1]) /\ shards[i][1][j].key = key}

----------------------------------------------------------------------------
(* Further properties of the merge calls (checked under SpecMerge)         *)

\* C38 as stated: every ProcessBundle instruction a merge call pushes names
\* a descriptor id that was registered with the worker handler manager
\* before the push, also in a call that follows one in which getting the
\* worker handler, building the descriptor or registering it raised.
C38_PushedDescriptorIsRegistered ==
  \A i \in 1..Len(trace) :
    trace[i].ev = "push" => trace[i].descriptor_id \in Range(registered)

\* a merge call is under way
Reading == mg_call.status = "reading"

\* C34 as stated: a merge call under way ends once the worker has responded,
\* with an error or without one.
C34_EndsOnAnyResponse == (Reading /\ result # None) ~> ~Reading

\* C34: a merge call has returned only when the worker's response is there
\* and carries no error, and the worker's output has ended and was read;
\* while the response is missing no step of the call returns (there is no
\* timeout); and a call under way ends once the worker has responded with
\* an error, or has responded and ended its output.
C34_ReturnsOnlyAfterResponse ==
  /\ [](mg_call.status = "returned" =>
          result = Some("") /\ stream_done /\ data_out = <<>>)
  /\ [][Reading /\ result = None => mg_call'.status # "returned"]_vars
  /\ (Reading /\ result # None /\ (result # Some("") \/ stream_done))
       ~> ~Reading

\* a merge call has returned after the worker had sent an element, ended
\* its output and responded without error
C34_Witness ==
  /\ mg_call.status = "returned"
  /\ mg_call.outputs # <<>>
  /\ result = Some("")
  /\ stream_done

----------------------------------------------------------------------------
(* Further properties of setup (checked under SpecSetup)                   *)

\* how often a stage name is pending in the three queues
TimesPending(name) ==
  Cardinality(PendingAt(ready_inputs, name))
    + Cardinality(PendingAt(watermark_pending_inputs,
                            <<name, MAX_TIMESTAMP>>))
    + Cardinality({i \in 1..Len(time_pending_inputs) :
                     time_pending_inputs[i].key[1] = name})

\* a pending tuple holds what the first setup put in it for the stage: one
\* buffer per impulse DATA_INPUT, holding the encoded impulse value, no timers
HoldsFirstInput(elm, stage) ==
  /\ elm.data = InitialInput(stage).data
  /\ elm.timers = EmptyMap

\* C40: once setup has run on a context, once or more often, each stage
\* name is pending at most once in the three queues together, the
\* time-pending queue is empty, a stage without an impulse DATA_INPUT is
\* pending in no queue, and every pending tuple holds what the first setup
\* put in it: one buffer per impulse DATA_INPUT of its stage, holding the
\* encoded impulse value once, and no timers.
C40_SetupEnqueuesOnce ==
  nsetup >= 1 =>
    /\ time_pending_inputs = <<>>
    /\ Len(ready_inputs) + Len(watermark_pending_inputs)
         = Cardinality({k \in 1..Len(pipeline) : Impulses(pipeline[k]) # {}})
    /\ \A k \in 1..Len(pipeline) :
         /\ TimesPending(pipeline[k].name) <= 1
         /\ Impulses(pipeline[k]) = {} => TimesPending(pipeline[k].name) = 0
    /\ \A i \in 1..Len(ready_inputs) :
         \E k \in 1..Len(pipeline) :
           /\ ready_inputs[i].key = pipeline[k].name
           /\ HoldsFirstInput(ready_inputs[i], pipeline[k])
    /\ \A i \in 1..Len(watermark_pending_inputs) :
         \E k \in 1..Len(pipeline) :
           /\ watermark_pending_inputs[i].key
                = <<pipeline[k].name, MAX_TIMESTAMP>>
           /\ HoldsFirstInput(watermark_pending_inputs[i], pipeline[k])

\* setup has run twice on a stage with two impulse inputs, which is pending
\* in the ready queue, and a stage that reads another buffer, which is
\* pending nowhere
C40_Witness ==
  /\ nsetup = 2
  /\ ec_op.name = "setup"
  /\ Len(ready_inputs) = 1
  /\ Cardinality(DOMAIN ready_inputs[1].data) = 2
  /\ watermark_pending_inputs = <<>>
  /\ \E k \in 1..Len(pipeline) :
       /\ TimesPending(pipeline[k].name) = 0
       /\ \E i \in 1..Len(pipeline[k].transforms) :
            pipeline[k].transforms[i] =
              Transform(DATA_INPUT_URN, OTHER_BUFFER, FALSE)

----------------------------------------------------------------------------
(* Properties of the static indices (checked under SpecIndex)              *)

\* the permutations of 1..n
Perms(n) == {f \in [1..n -> 1..n] : \A i, j \in 1..n : f[i] = f[j] => i = j}

\* the stages with their transforms in any other order
Reordered(stage) ==
  {Stage(stage.name, [i \in 1..Len(stage.transforms) |->
                        stage.transforms[f[i]]]) :
     f \in Perms(Len(stage.transforms))}

\* the lists holding the same stages with the same transforms in any order
Reorderings(stgs) ==
  {[k \in 1..Len(stgs) |-> r[f[k]]] :
     f \in Perms(Len(stgs)),
     r \in {x \in [1..Len(stgs) ->
                    UNION {Reordered(stgs[k]) : k \in 1..Len(stgs)}] :
              \A k \in 1..Len(stgs) : x[k] \in Reordered(stgs[k])}}

\* the (stage name, transform) pairs of a pipeline
Placements(stgs) ==
  UNION {{<<stgs[k].name, t>> : t \in Range(stgs[k].transforms)} :
           k \in 1..Len(stgs)}

\* the DATA_OUTPUT transforms writing a PCollection
WritersOf(stgs, pcoll) ==
  {x[2].unique_name :
     x \in {y \in Placements(stgs) :
              /\ y[2].urn = DATA_OUTPUT_URN
              /\ SplitBufferId(y[2].payload)[2] = pcoll}}

\* the (stage, transform) pairs of the DATA_INPUT transforms reading a buffer
ReadersOf(stgs, buffer_id) ==
  {<<x[1], x[2].unique_name>> :
     x \in {y \in Placements(stgs) :
              y[2].urn = DATA_INPUT_URN /\ y[2].payload = buffer_id}}

\* the dictionaries of the context
Built ==
  Dictionaries(input_transform_to_buffer_id,
               pcollection_to_producer_transform,
               buffer_id_to_consumer_pairs)

\* C36: the dictionaries built in __init__ are the same for every order of
\* the stages and of the transforms in them: each DATA_INPUT transform maps
\* to its buffer id, a PCollection maps to the DATA_OUTPUT transform
\* writing it when there is one and to None otherwise, the impulse buffer
\* id maps to None, and a buffer id that is not the impulse maps to exactly
\* the (stage, transform) pairs of the DATA_INPUT transforms reading it.
C36_IndicesIndependentOfOrder ==
  ix_op = "_compute_pipeline_dictionaries" =>
    /\ \A r \in Reorderings(ix_stages) : ComputePipelineDictionaries(r) = Built
    /\ \A x \in Placements(ix_stages) :
         x[2].urn = DATA_INPUT_URN =>
           /\ x[2].unique_name \in DOMAIN input_transform_to_buffer_id
           /\ input_transform_to_buffer_id[x[2].unique_name] = x[2].payload
    /\ \A pcoll \in DOMAIN pcollection_to_producer_transform :
         IF pcoll = IMPULSE_BUFFER \/ WritersOf(ix_stages, pcoll) = {}
         THEN pcollection_to_producer_transform[pcoll] = None
         ELSE pcollection_to_producer_transform[pcoll]
                \in {Some(w) : w \in WritersOf(ix_stages, pcoll)}
    /\ \A buffer_id \in DOMAIN buffer_id_to_consumer_pairs :
         /\ buffer_id # IMPULSE_BUFFER
         /\ buffer_id_to_consumer_pairs[buffer_id]
              = ReadersOf(ix_stages, buffer_id)
    /\ \A x \in Placements(ix_stages) :
         x[2].urn = DATA_INPUT_URN /\ x[2].payload # IMPULSE_BUFFER =>
           x[2].payload \in DOMAIN buffer_id_to_consumer_pairs

\* the side inputs referenced in a pipeline: (transform, tag) of every tag
\* in the side inputs of a ParDo
SideInputRefs(stgs) ==
  UNION {{<<t, tag>> : tag \in DOMAIN t.side_inputs} :
           t \in {x \in AllTransforms(stgs) : x.urn = PAR_DO_URN}}

\* the stage of a list with a name
StageNamed(stgs, name) ==
  stgs[CHOOSE k \in 1..Len(stgs) : stgs[k].name = name]

\* C37: when _build_data_side_inputs_map returns, its map has an entry for
\* every stage name, and every side input (consuming ParDo, tag) of the
\* pipeline is a key under exactly one stage, with the buffer id of the
\* PCollection the ParDo reads under the tag and the access pattern of the
\* tag; that stage has a transform that outputs the PCollection and no
\* ParDo that reads it as a side input; and no entry has another key.
C37_SideInputsUnderOneProducingStage ==
  (ix_op = "_build_data_side_inputs_map"
     /\ side_input_descriptors_by_stage # None) =>
    LET map == side_input_descriptors_by_stage[1] IN
    /\ DOMAIN map = {ix_stages[k].name : k \in 1..Len(ix_stages)}
    /\ \A ref \in SideInputRefs(ix_stages) :
         LET id == <<ref[1].unique_name, ref[2]>>
             pcoll == ref[1].inputs[ref[2]]
             under == {name \in DOMAIN map : id \in DOMAIN map[name]}
         IN /\ Cardinality(under) = 1
            /\ \A name \in under :
                 /\ map[name][id]
                      = <<CreateBufferId(pcoll), ref[1].side_inputs[ref[2]]>>
                 /\ pcoll \in OutputsOf(StageNamed(ix_stages, name))
                 /\ pcoll \notin SideInputsOf(StageNamed(ix_stages, name))
    /\ \A name \in DOMAIN map :
         DOMAIN map[name]
           \subseteq {<<ref[1].unique_name, ref[2]>> :
                        ref \in SideInputRefs(ix_stages)}

\* a map was built for a pipeline in which a stage outputs the PCollection
\* and reads it as a side input, so that an other stage is the producing one,
\* under which a ParDo reading it under two tags has two entries
C37_Witness ==
  /\ ix_op = "_build_data_side_inputs_map"
  /\ side_input_descriptors_by_stage # None
  /\ \E k \in 1..Len(ix_stages) :
       /\ "side" \in OutputsOf(ix_stages[k]) \cap SideInputsOf(ix_stages[k])
       /\ Cardinality(DOMAIN side_input_descriptors_by_stage[1]
                               [ix_stages[k].name]) = 0
  /\ \E name \in DOMAIN side_input_descriptors_by_stage[1] :
       \E t \in AllTransforms(ix_stages) :
         {<<t.unique_name, "s1">>, <<t.unique_name, "s2">>}
           \subseteq DOMAIN side_input_descriptors_by_stage[1][name]

----------------------------------------------------------------------------
(* Properties of the worker status handler (checked under SpecStatus)      *)

\* the responses put on the queue so far, in the order of the puts
ResponsesPut == SelectSeq(enqueued, LAMBDA x : x.kind # "DONE")

\* C31: the responses put on the queue are, one for one and in order, those
\* of the requests taken from the streams: each carries the id of its
\* request and has the error field set when generating the report raised
\* and the status field otherwise; and handling a request, raising or not,
\* leaves the serving thread in the loop over the same stream, so that the
\* requests after a raising one are answered as well.
C31_OneResponsePerRequest ==
  /\ [](/\ Len(ResponsesPut) = Len(requests)
        /\ \A i \in 1..Len(requests) :
             /\ ResponsesPut[i].id = requests[i].id
             /\ ResponsesPut[i].kind
                  = IF requests[i].raised THEN "error" ELSE "status_info")
  /\ [][requests' # requests =>
          /\ serve_pc' = "for"
          /\ status_streams' = status_streams
          /\ alive' = alive]_vars

\* the report of the first request raised, the second request came on the
\* same stream, and both responses were sent
C31_Witness ==
  /\ Len(requests) = 2
  /\ requests[1].raised /\ ~requests[2].raised
  /\ requests[1].stream = requests[2].stream
  /\ Len(sent) = 2
  /\ sent[1].item.kind = "error" /\ sent[1].item.id = requests[1].id
  /\ sent[2].item.kind = "status_info" /\ sent[2].item.id = requests[2].id

\* the puts of the sentinels that a generator has taken from the queue
SentinelsConsumed ==
  {status_streams[s].item.n :
     s \in {x \in 1..Len(status_streams) :
              status_streams[x].gen \in {"sentinel", "returned"}}}

\* C32: close() puts the sentinel on the queue; a generator that returned
\* has marked the handler not alive; once a generator has taken the
\* sentinel no response put behind it is sent and the serving loop starts
\* no stream.
C32_SentinelStopsTheHandler ==
  /\ [](nclose = Cardinality({i \in 1..Len(enqueued) :
                                enqueued[i].kind = "DONE"}))
  /\ [](\A s \in 1..Len(status_streams) :
          status_streams[s].gen = "returned" => ~alive)
  /\ [](\A i \in 1..Len(sent) :
          \A n \in SentinelsConsumed : sent[i].item.n < n)
  /\ [][SentinelsConsumed # {} =>
          Len(status_streams') = Len(status_streams)]_vars

----------------------------------------------------------------------------
(* Properties of the lull logger (checked under SpecLull)                  *)

\* the bundles of the last poll that are stalled: their time since the last
\* transition exceeds the timeout
Stalled ==
  {lull_op.bundles[i].instruction :
     i \in {j \in 1..Len(lull_op.bundles) :
              lull_op.bundles[j].time_since_transition > log_lull_timeout}}

\* C39: a poll that finds a stalled bundle, when every warning logged
\* before it is more than one timeout old, logs a warning, and a poll logs
\* warnings for stalled bundles only, wherever the stalled bundle is among
\* the active ones; and two warnings are never less than one timeout apart.
C39_StalledBundleIsLogged ==
  /\ lull_op.name = "poll" =>
       /\ (Stalled # {}
             /\ \A i \in 1..Len(lull_op.prior) :
                  now - lull_op.prior[i].time > log_lull_timeout)
            => lull_op.logged # <<>>
       /\ Range(lull_op.logged) \subseteq Stalled
  /\ \A i, j \in 1..Len(warnings) :
       i < j => warnings[j].time - warnings[i].time >= log_lull_timeout

====
